---- MODULE Spec2Model ----
(***************************************************************************)
(* Model of the md terminal markdown viewer (getangry/md):                 *)
(*   - the file finder (FileNode trees, scans, FlattenTree, CollectFiles), *)
(*   - the dual-pane controller DualPaneModel and its Update handlers,     *)
(*     driven by the bubbletea event loop (one message handled at a time,  *)
(*     commands and ticks delivering their message later).                 *)
(* Strings are sequences of one-character strings.                         *)
(***************************************************************************)
EXTENDS Integers, Sequences, FiniteSets, Bags, TLC

\* ------------------------------------------------------------------------
\* Bounds of the model
\* ------------------------------------------------------------------------

\* manual deepen requests ('e') are accepted while currentDepth < MaxDepth
MaxDepth == 6

\* manual deepen requests are accepted while fewer than MaxPending
\* deepening messages are scheduled
MaxPending == 2

\* page keys are accepted while the viewport is less than MaxOvershoot
\* lines before the first or after the last line
MaxOvershoot == 2

\* in single-file mode a resize or a raw toggle is accepted while fewer than
\* MaxInFlight commands and messages are in flight
MaxInFlight == 2

\* ------------------------------------------------------------------------
\* Evaluation
\* ------------------------------------------------------------------------

\* LET x == v IN F(x), with v evaluated once however often F uses it
Let(v, F(_)) == CHOOSE r \in {F(x) : x \in {v}} : TRUE

\* ------------------------------------------------------------------------
\* Strings
\* ------------------------------------------------------------------------

\* the box-drawing characters of the tree lines, named by code point
BoxHoriz == "u2500"

BoxVert == "u2502"

BoxUpRight == "u2514"

BoxVertRight == "u251C"

\* the characters that occur, in byte order
Alphabet ==
  << "\n", " ", "#", "+", "-", ".", "/", ":", "A", "B", "D", "E", "L", "M",
     "R", "[", "]", "a", "b", "c", "d", "e", "f", "g", "i", "l", "m", "n",
     "o", "r", "s", "t", "x", "u2500", "u2502", "u2514", "u251C" >>

Code(c) == CHOOSE i \in 1..Len(Alphabet) : Alphabet[i] = c

\* strings.ToLower on one character
LowerChar(c) ==
  CASE c = "A" -> "a" [] c = "B" -> "b" [] c = "D" -> "d" [] c = "E" -> "e"
    [] c = "L" -> "l" [] c = "M" -> "m" [] c = "R" -> "r" [] OTHER -> c

ToLower(s) == [i \in 1..Len(s) |-> LowerChar(s[i])]

HasPrefix(s, p) == Len(s) >= Len(p) /\ SubSeq(s, 1, Len(p)) = p

HasSuffix(s, p) ==
  Len(s) >= Len(p) /\ SubSeq(s, Len(s) - Len(p) + 1, Len(s)) = p

\* strings.Contains
Contains(s, sub) ==
  \E i \in 1..(Len(s) - Len(sub) + 1) : SubSeq(s, i, i + Len(sub) - 1) = sub

\* s < t in byte-wise lexicographic order
StrLess(s, t) ==
  \E i \in 1..(Len(t)) :
     /\ \A j \in 1..(i - 1) : j <= Len(s) /\ s[j] = t[j]
     /\ i - 1 <= Len(s)
     /\ \/ i = Len(s) + 1
        \/ i <= Len(s) /\ Code(s[i]) < Code(t[i])

RECURSIVE SplitFrom(_, _, _, _)
SplitFrom(s, sep, i, cur) ==
  IF i > Len(s) THEN << cur >>
  ELSE IF s[i] = sep THEN << cur >> \o SplitFrom(s, sep, i + 1, << >>)
  ELSE SplitFrom(s, sep, i + 1, Append(cur, s[i]))

\* strings.Split(s, sep) for a one-character separator
Split(s, sep) == SplitFrom(s, sep, 1, << >>)

RECURSIVE JoinWith(_, _)
\* strings.Join(parts, sep)
JoinWith(parts, sep) ==
  IF Len(parts) = 0 THEN << >>
  ELSE IF Len(parts) = 1 THEN parts[1]
  ELSE parts[1] \o << sep >> \o JoinWith(Tail(parts), sep)

\* filepath.Join(base, rel) for a clean base and a clean relative path
PathJoin(base, rel) == IF Len(rel) = 0 THEN base ELSE base \o << "/" >> \o rel

\* filepath.Rel(base, full) for full at or below base
PathRel(base, full) ==
  IF full = base THEN << "." >> ELSE SubSeq(full, Len(base) + 2, Len(full))

\* filepath.Base of a clean path
PathBase(p) == LET parts == Split(p, "/") IN parts[Len(parts)]

Max(a, b) == IF a > b THEN a ELSE b

Min(a, b) == IF a < b THEN a ELSE b

\* ------------------------------------------------------------------------
\* float64 arithmetic on the split ratio
\* ------------------------------------------------------------------------

\* the float64 values that splitRatio and splitRatio -/+ 0.05 take, in
\* ascending order, each named by its shortest decimal form
Doubles ==
  << "0.15000000000000002",
     "0.15000000000000008",
     "0.2",
     "0.20000000000000007",
     "0.25",
     "0.25000000000000006",
     "0.3",
     "0.30000000000000004",
     "0.35",
     "0.35000000000000003",
     "0.39999999999999997",
     "0.4",
     "0.44999999999999996",
     "0.45",
     "0.49999999999999994",
     "0.5",
     "0.5499999999999999",
     "0.55" >>

\* the values splitRatio takes
Ratios ==
  { "0.2",
    "0.20000000000000007",
    "0.25",
    "0.25000000000000006",
    "0.3",
    "0.30000000000000004",
    "0.35",
    "0.35000000000000003",
    "0.39999999999999997",
    "0.4",
    "0.44999999999999996",
    "0.45",
    "0.49999999999999994",
    "0.5" }

\* r - 0.05 in float64 arithmetic
FloatMinus005 ==
  "0.2" :> "0.15000000000000002" @@
  "0.20000000000000007" :> "0.15000000000000008" @@
  "0.25" :> "0.2" @@
  "0.25000000000000006" :> "0.20000000000000007" @@
  "0.3" :> "0.25" @@
  "0.30000000000000004" :> "0.25000000000000006" @@
  "0.35" :> "0.3" @@
  "0.35000000000000003" :> "0.30000000000000004" @@
  "0.39999999999999997" :> "0.35" @@
  "0.4" :> "0.35000000000000003" @@
  "0.44999999999999996" :> "0.39999999999999997" @@
  "0.45" :> "0.4" @@
  "0.49999999999999994" :> "0.44999999999999996" @@
  "0.5" :> "0.45"

\* r + 0.05 in float64 arithmetic
FloatPlus005 ==
  "0.2" :> "0.25" @@
  "0.20000000000000007" :> "0.25000000000000006" @@
  "0.25" :> "0.3" @@
  "0.25000000000000006" :> "0.30000000000000004" @@
  "0.3" :> "0.35" @@
  "0.30000000000000004" :> "0.35000000000000003" @@
  "0.35" :> "0.39999999999999997" @@
  "0.35000000000000003" :> "0.4" @@
  "0.39999999999999997" :> "0.44999999999999996" @@
  "0.4" :> "0.45" @@
  "0.44999999999999996" :> "0.49999999999999994" @@
  "0.45" :> "0.5" @@
  "0.49999999999999994" :> "0.5499999999999999" @@
  "0.5" :> "0.55"

\* int(float64(w) * r) for the widths w the terminal takes
IntOfProduct ==
  << 0, "0.2" >> :> 0 @@
  << 40, "0.2" >> :> 8 @@
  << 80, "0.2" >> :> 16 @@
  << 100, "0.2" >> :> 20 @@
  << 0, "0.20000000000000007" >> :> 0 @@
  << 40, "0.20000000000000007" >> :> 8 @@
  << 80, "0.20000000000000007" >> :> 16 @@
  << 100, "0.20000000000000007" >> :> 20 @@
  << 0, "0.25" >> :> 0 @@
  << 40, "0.25" >> :> 10 @@
  << 80, "0.25" >> :> 20 @@
  << 100, "0.25" >> :> 25 @@
  << 0, "0.25000000000000006" >> :> 0 @@
  << 40, "0.25000000000000006" >> :> 10 @@
  << 80, "0.25000000000000006" >> :> 20 @@
  << 100, "0.25000000000000006" >> :> 25 @@
  << 0, "0.3" >> :> 0 @@
  << 40, "0.3" >> :> 12 @@
  << 80, "0.3" >> :> 24 @@
  << 100, "0.3" >> :> 30 @@
  << 0, "0.30000000000000004" >> :> 0 @@
  << 40, "0.30000000000000004" >> :> 12 @@
  << 80, "0.30000000000000004" >> :> 24 @@
  << 100, "0.30000000000000004" >> :> 30 @@
  << 0, "0.35" >> :> 0 @@
  << 40, "0.35" >> :> 14 @@
  << 80, "0.35" >> :> 28 @@
  << 100, "0.35" >> :> 35 @@
  << 0, "0.35000000000000003" >> :> 0 @@
  << 40, "0.35000000000000003" >> :> 14 @@
  << 80, "0.35000000000000003" >> :> 28 @@
  << 100, "0.35000000000000003" >> :> 35 @@
  << 0, "0.39999999999999997" >> :> 0 @@
  << 40, "0.39999999999999997" >> :> 15 @@
  << 80, "0.39999999999999997" >> :> 31 @@
  << 100, "0.39999999999999997" >> :> 40 @@
  << 0, "0.4" >> :> 0 @@
  << 40, "0.4" >> :> 16 @@
  << 80, "0.4" >> :> 32 @@
  << 100, "0.4" >> :> 40 @@
  << 0, "0.44999999999999996" >> :> 0 @@
  << 40, "0.44999999999999996" >> :> 18 @@
  << 80, "0.44999999999999996" >> :> 36 @@
  << 100, "0.44999999999999996" >> :> 44 @@
  << 0, "0.45" >> :> 0 @@
  << 40, "0.45" >> :> 18 @@
  << 80, "0.45" >> :> 36 @@
  << 100, "0.45" >> :> 45 @@
  << 0, "0.49999999999999994" >> :> 0 @@
  << 40, "0.49999999999999994" >> :> 19 @@
  << 80, "0.49999999999999994" >> :> 39 @@
  << 100, "0.49999999999999994" >> :> 49 @@
  << 0, "0.5" >> :> 0 @@
  << 40, "0.5" >> :> 20 @@
  << 80, "0.5" >> :> 40 @@
  << 100, "0.5" >> :> 50

\* int(float64(w) * (1 - r)) for the widths w the terminal takes
IntOfRest ==
  << 0, "0.2" >> :> 0 @@
  << 40, "0.2" >> :> 32 @@
  << 80, "0.2" >> :> 64 @@
  << 100, "0.2" >> :> 80 @@
  << 0, "0.20000000000000007" >> :> 0 @@
  << 40, "0.20000000000000007" >> :> 31 @@
  << 80, "0.20000000000000007" >> :> 63 @@
  << 100, "0.20000000000000007" >> :> 80 @@
  << 0, "0.25" >> :> 0 @@
  << 40, "0.25" >> :> 30 @@
  << 80, "0.25" >> :> 60 @@
  << 100, "0.25" >> :> 75 @@
  << 0, "0.25000000000000006" >> :> 0 @@
  << 40, "0.25000000000000006" >> :> 30 @@
  << 80, "0.25000000000000006" >> :> 60 @@
  << 100, "0.25000000000000006" >> :> 75 @@
  << 0, "0.3" >> :> 0 @@
  << 40, "0.3" >> :> 28 @@
  << 80, "0.3" >> :> 56 @@
  << 100, "0.3" >> :> 70 @@
  << 0, "0.30000000000000004" >> :> 0 @@
  << 40, "0.30000000000000004" >> :> 28 @@
  << 80, "0.30000000000000004" >> :> 56 @@
  << 100, "0.30000000000000004" >> :> 70 @@
  << 0, "0.35" >> :> 0 @@
  << 40, "0.35" >> :> 26 @@
  << 80, "0.35" >> :> 52 @@
  << 100, "0.35" >> :> 65 @@
  << 0, "0.35000000000000003" >> :> 0 @@
  << 40, "0.35000000000000003" >> :> 25 @@
  << 80, "0.35000000000000003" >> :> 51 @@
  << 100, "0.35000000000000003" >> :> 64 @@
  << 0, "0.39999999999999997" >> :> 0 @@
  << 40, "0.39999999999999997" >> :> 24 @@
  << 80, "0.39999999999999997" >> :> 48 @@
  << 100, "0.39999999999999997" >> :> 60 @@
  << 0, "0.4" >> :> 0 @@
  << 40, "0.4" >> :> 24 @@
  << 80, "0.4" >> :> 48 @@
  << 100, "0.4" >> :> 60 @@
  << 0, "0.44999999999999996" >> :> 0 @@
  << 40, "0.44999999999999996" >> :> 22 @@
  << 80, "0.44999999999999996" >> :> 44 @@
  << 100, "0.44999999999999996" >> :> 55 @@
  << 0, "0.45" >> :> 0 @@
  << 40, "0.45" >> :> 22 @@
  << 80, "0.45" >> :> 44 @@
  << 100, "0.45" >> :> 55 @@
  << 0, "0.49999999999999994" >> :> 0 @@
  << 40, "0.49999999999999994" >> :> 20 @@
  << 80, "0.49999999999999994" >> :> 40 @@
  << 100, "0.49999999999999994" >> :> 50 @@
  << 0, "0.5" >> :> 0 @@
  << 40, "0.5" >> :> 20 @@
  << 80, "0.5" >> :> 40 @@
  << 100, "0.5" >> :> 50

FloatRank(x) == CHOOSE i \in 1..Len(Doubles) : Doubles[i] = x

maxFloat(a, b) == IF FloatRank(a) > FloatRank(b) THEN a ELSE b

minFloat(a, b) == IF FloatRank(a) < FloatRank(b) THEN a ELSE b

\* integer division as Go does it, truncating toward zero
GoDiv(a, b) == IF a >= 0 THEN a \div b ELSE -((-a) \div b)

\* ------------------------------------------------------------------------
\* The filesystem scanned by the finder (an input of the model)
\* ------------------------------------------------------------------------

\* the working directory, DualPaneModel.rootPath
RootPath == << "/", "r" >>

\* a regular file with its bytes; readable = FALSE makes os.ReadFile fail
FsFile(name, data, readable) ==
  [name |-> name, isDir |-> FALSE, kids |-> << >>, data |-> data,
   readable |-> readable]

\* a directory with its entries in ReadDir (lexical) order;
\* readable = FALSE makes ReadDir on it fail
FsDir(name, kids, readable) ==
  [name |-> name, isDir |-> TRUE, kids |-> kids, data |-> << >>,
   readable |-> readable]

\* ------------------------------------------------------------------------
\* FileNode trees
\* ------------------------------------------------------------------------

FileNode(name, path, isDir, children) ==
  [Name |-> name, Path |-> path, IsDir |-> isDir, Children |-> children]

\* index of the first child of node named part, 0 if none
ChildNamed(node, part) ==
  LET hits == {i \in 1..Len(node.Children) : node.Children[i].Name = part}
  IN IF hits = {} THEN 0 ELSE CHOOSE i \in hits : \A j \in hits : i <= j

RECURSIVE AddParts(_, _, _, _, _)
\* the loop of addToTree from part i on, below node
AddParts(node, basePath, parts, i, isDir) ==
  IF i > Len(parts) THEN node
  ELSE LET idx == ChildNamed(node, parts[i])
       IN IF idx > 0
          THEN [node EXCEPT !.Children[idx] =
                              AddParts(@, basePath, parts, i + 1, isDir)]
          ELSE LET newNode ==
                     FileNode(parts[i],
                              PathJoin(basePath,
                                       JoinWith(SubSeq(parts, 1, i), "/")),
                              isDir \/ i < Len(parts), << >>)
               IN [node EXCEPT !.Children =
                     Append(@, AddParts(newNode, basePath, parts, i + 1,
                                        isDir))]

\* addToTree that appends the first part below the root without looking
\* for a child of that name
addToTree_NoMerge(root, basePath, fullPath, isDir) ==
  LET parts == Split(PathRel(basePath, fullPath), "/")
      newNode == FileNode(parts[1], PathJoin(basePath, parts[1]),
                          isDir \/ 1 < Len(parts), << >>)
  IN [root EXCEPT !.Children =
        Append(@, AddParts(newNode, basePath, parts, 2, isDir))]

addToTree(root, basePath, fullPath, isDir) ==
  AddParts(root, basePath, Split(PathRel(basePath, fullPath), "/"), 1, isDir)

\* the comparison of sortTree
NodeLess(a, b) ==
  IF a.IsDir # b.IsDir THEN a.IsDir
  ELSE StrLess(ToLower(a.Name), ToLower(b.Name))

RECURSIVE InsertSorted(_, _)
InsertSorted(sorted, n) ==
  IF Len(sorted) = 0 THEN << n >>
  ELSE IF NodeLess(n, sorted[1]) THEN << n >> \o sorted
  ELSE << sorted[1] >> \o InsertSorted(Tail(sorted), n)

RECURSIVE SortNodes(_)
SortNodes(nodes) ==
  IF Len(nodes) = 0 THEN << >>
  ELSE Let(SortNodes(SubSeq(nodes, 1, Len(nodes) - 1)),
           LAMBDA sorted : InsertSorted(sorted, nodes[Len(nodes)]))

\* sortTree that sorts the children of the node and not the levels below
sortTree_TopLevel(node) == [node EXCEPT !.Children = SortNodes(node.Children)]

RECURSIVE sortTree(_)
sortTree(node) ==
  IF Len(node.Children) = 0 THEN node
  ELSE Let(SortNodes(node.Children),
           LAMBDA sorted :
             [node EXCEPT !.Children =
                [i \in 1..Len(sorted) |-> sortTree(sorted[i])]])

\* FlattenTree that lists the children of the node and does not descend
FlattenTree_TopLevel(node, prefix, isLast) ==
  [i \in 1..Len(node.Children) |->
     (IF i = Len(node.Children)
      THEN << " ", " ", " ", " ", BoxUpRight, BoxHoriz, BoxHoriz, " " >>
      ELSE << " ", " ", " ", " ", BoxVertRight, BoxHoriz, BoxHoriz, " " >>)
     \o (IF node.Children[i].IsDir
         THEN << "[", "+", "]", " " >> \o node.Children[i].Name \o << "/" >>
         ELSE << "[", "-", "]", " " >> \o node.Children[i].Name)]

RECURSIVE FlattenTree(_, _, _)
FlattenTree(node, prefix, isLast) ==
  LET stem == SubSeq(prefix, 1, Len(prefix) - 4)
      line == (IF isLast
               THEN stem \o << BoxUpRight, BoxHoriz, BoxHoriz, " " >>
               ELSE stem \o << BoxVertRight, BoxHoriz, BoxHoriz, " " >>)
              \o (IF node.IsDir
                  THEN << "[", "+", "]", " " >> \o node.Name \o << "/" >>
                  ELSE << "[", "-", "]", " " >> \o node.Name)
      own == IF prefix # << >> THEN << line >> ELSE << >>
      newPrefix == IF prefix = << >> THEN << " ", " ", " ", " " >>
                   ELSE IF isLast THEN stem \o << " ", " ", " ", " " >>
                   ELSE stem \o << BoxVert, " ", " ", " " >>
      n == Len(node.Children)
      kidLines[i \in 0..n] ==
        IF i = 0 THEN << >>
        ELSE kidLines[i - 1]
             \o Let(newPrefix \o << " ", " ", " ", " " >>,
                    LAMBDA p : FlattenTree(node.Children[i], p, i = n))
  IN own \o kidLines[n]

\* CollectFiles that lists the documents of a directory before it descends
RECURSIVE CollectFiles_DocumentsFirst(_)
CollectFiles_DocumentsFirst(node) ==
  LET docs == SelectSeq(node.Children, LAMBDA c : ~c.IsDir)
      dirs == SelectSeq(node.Children, LAMBDA c : c.IsDir)
      paths[i \in 0..Len(docs)] ==
        IF i = 0 THEN << >> ELSE paths[i - 1] \o << docs[i].Path >>
      below[i \in 0..Len(dirs)] ==
        IF i = 0 THEN << >>
        ELSE below[i - 1] \o CollectFiles_DocumentsFirst(dirs[i])
  IN (IF ~node.IsDir THEN << node.Path >> ELSE << >>)
     \o paths[Len(docs)] \o below[Len(dirs)]

RECURSIVE CollectFiles(_)
CollectFiles(node) ==
  LET n == Len(node.Children)
      kidFiles[i \in 0..n] ==
        IF i = 0 THEN << >>
        ELSE kidFiles[i - 1] \o CollectFiles(node.Children[i])
  IN (IF ~node.IsDir THEN << node.Path >> ELSE << >>) \o kidFiles[n]

\* ------------------------------------------------------------------------
\* Scans
\* ------------------------------------------------------------------------

\* a matcher that is consulted under -i as well
IgnoreLoaded_Always(fsys, includeIgnored) == fsys.ignoreFile = "ok"

\* a matcher that is there whenever the root has a .gitignore, loadable or
\* not
IgnoreLoaded_Present(fsys, includeIgnored) ==
  ~includeIgnored /\ fsys.ignoreFile # "none"

\* the ignore matcher the scan uses: none when includeIgnored is set, when
\* the root has no .gitignore, or when it cannot be loaded
IgnoreLoaded(fsys, includeIgnored) ==
  ~includeIgnored /\ fsys.ignoreFile = "ok"

\* ignore.Ignore(relPath) of the loaded matcher
Ignore(fsys, relPath) == relPath \in fsys.ignored

\* a suffix test that tells upper case from lower case
IsMarkdown_CaseSensitive(name) == HasSuffix(name, << ".", "m", "d" >>)

IsMarkdown(name) == HasSuffix(ToLower(name), << ".", "m", "d" >>)

\* a quick scan that also lists the documents of the directories of the root
FindMarkdownFilesQuick_Descend(fsys, includeIgnored) ==
  LET root == FileNode(PathBase(RootPath), RootPath, TRUE, << >>)
      entries == fsys.entries
      n == Len(entries)
      below(tree, e, fullPath) ==
        LET kids == e.kids
            acc[i \in 0..Len(kids)] ==
              IF i = 0 THEN tree
              ELSE IF ~kids[i].isDir /\ IsMarkdown(kids[i].name)
              THEN addToTree(acc[i - 1], RootPath,
                             PathJoin(fullPath, kids[i].name), FALSE)
              ELSE acc[i - 1]
        IN acc[Len(kids)]
      step(tree, e) ==
        LET fullPath == PathJoin(RootPath, e.name)
        IN IF HasPrefix(e.name, << "." >>) THEN tree
           ELSE IF IgnoreLoaded(fsys, includeIgnored) /\ Ignore(fsys, e.name)
           THEN tree
           ELSE IF e.isDir
           THEN below(addToTree(tree, RootPath, fullPath, TRUE), e, fullPath)
           ELSE IF IsMarkdown(e.name)
           THEN addToTree(tree, RootPath, fullPath, FALSE)
           ELSE tree
      acc[i \in 0..n] ==
        IF i = 0 THEN root
        ELSE Let(acc[i - 1], LAMBDA tree : step(tree, entries[i]))
  IN IF ~fsys.rootReadable THEN root
     ELSE Let(acc[n], LAMBDA tree : sortTree(tree))

FindMarkdownFilesQuick(fsys, includeIgnored) ==
  LET root == FileNode(PathBase(RootPath), RootPath, TRUE, << >>)
      entries == fsys.entries
      n == Len(entries)
      step(tree, e) ==
        LET fullPath == PathJoin(RootPath, e.name)
        IN IF HasPrefix(e.name, << "." >>) THEN tree
           ELSE IF IgnoreLoaded(fsys, includeIgnored) /\ Ignore(fsys, e.name)
           THEN tree
           ELSE IF e.isDir THEN addToTree(tree, RootPath, fullPath, TRUE)
           ELSE IF IsMarkdown(e.name)
           THEN addToTree(tree, RootPath, fullPath, FALSE)
           ELSE tree
      acc[i \in 0..n] ==
        IF i = 0 THEN root
        ELSE Let(acc[i - 1], LAMBDA tree : step(tree, entries[i]))
  IN IF ~fsys.rootReadable THEN root
     ELSE Let(acc[n], LAMBDA tree : sortTree(tree))

RECURSIVE WalkEntries(_, _, _, _, _, _)
\* the WalkDir callback of FindMarkdownFilesWithDepth applied, in lexical
\* order, to the entries of the directory dirPath and to what lies below
WalkEntries(tree, fsys, includeIgnored, maxDepth, dirPath, entries) ==
  LET n == Len(entries)
      visitAt(t, e, path) ==
        LET relPath == PathRel(RootPath, path)
            depth == Len(Split(relPath, "/")) - 1
        IN IF maxDepth >= 0 /\ depth > maxDepth THEN t
           ELSE IF e.isDir /\ HasPrefix(e.name, << "." >>) THEN t
           ELSE IF IgnoreLoaded(fsys, includeIgnored) /\ Ignore(fsys, relPath)
           THEN t
           ELSE IF ~e.isDir /\ ~IsMarkdown(e.name) THEN t
           ELSE LET added == addToTree(t, RootPath, path, e.isDir)
                IN IF e.isDir /\ e.readable
                   THEN WalkEntries(added, fsys, includeIgnored, maxDepth,
                                    path, e.kids)
                   ELSE added
      visit(t, e) ==
        Let(PathJoin(dirPath, e.name), LAMBDA path : visitAt(t, e, path))
      acc[i \in 0..n] ==
        IF i = 0 THEN tree
        ELSE Let(acc[i - 1], LAMBDA t : visit(t, entries[i]))
  IN acc[n]

\* a depth-bounded scan that gives up when a directory of the root cannot be
\* listed
FindMarkdownFilesWithDepth_Abort(fsys, includeIgnored, maxDepth) ==
  LET root == FileNode(PathBase(RootPath), RootPath, TRUE, << >>)
  IN IF ~fsys.rootReadable
        \/ \E k \in 1..Len(fsys.entries) :
             fsys.entries[k].isDir /\ ~fsys.entries[k].readable
     THEN root
     ELSE Let(WalkEntries(root, fsys, includeIgnored, maxDepth, RootPath,
                          fsys.entries),
              LAMBDA tree : sortTree(tree))

\* a scan that walks every level whatever its maxDepth
FindMarkdownFilesWithDepth_NoBound(fsys, includeIgnored, maxDepth) ==
  LET root == FileNode(PathBase(RootPath), RootPath, TRUE, << >>)
  IN IF ~fsys.rootReadable THEN root
     ELSE Let(WalkEntries(root, fsys, includeIgnored, -1, RootPath,
                          fsys.entries),
              LAMBDA tree : sortTree(tree))

FindMarkdownFilesWithDepth(fsys, includeIgnored, maxDepth) ==
  LET root == FileNode(PathBase(RootPath), RootPath, TRUE, << >>)
  IN IF ~fsys.rootReadable THEN root
     ELSE Let(WalkEntries(root, fsys, includeIgnored, maxDepth, RootPath,
                          fsys.entries),
              LAMBDA tree : sortTree(tree))

FindMarkdownFiles(fsys, includeIgnored) ==
  FindMarkdownFilesWithDepth(fsys, includeIgnored, -1)

RECURSIVE FsLookup(_, _, _)
\* the filesystem entry at the relative path parts[i..] below entries
FsLookup(entries, parts, i) ==
  LET hits == {k \in 1..Len(entries) : entries[k].name = parts[i]}
  IN IF hits = {} THEN [found |-> FALSE]
     ELSE LET e == entries[CHOOSE k \in hits : TRUE]
          IN IF i = Len(parts) THEN [found |-> TRUE, entry |-> e]
             ELSE FsLookup(e.kids, parts, i + 1)

\* os.ReadFile(path): the bytes, or an error
ReadFile(fsys, path) ==
  Let(FsLookup(fsys.entries, Split(PathRel(RootPath, path), "/"), 1),
      LAMBDA r : IF r.found /\ ~r.entry.isDir /\ r.entry.readable
                 THEN [err |-> FALSE, content |-> r.entry.data]
                 ELSE [err |-> TRUE, content |-> << >>])


\* ------------------------------------------------------------------------
\* Rendering (glamour, an external engine)
\* ------------------------------------------------------------------------

\* the run of blanks by which the engine pads a line to its wrap width,
\* as one character
PadTo(w) == "pad" \o ToString(w)

RECURSIVE RenderLines(_, _)
RenderLines(lines, w) ==
  IF Len(lines) = 0 THEN << >>
  ELSE << "\n", " ", " " >> \o lines[1] \o << PadTo(w) >>
       \o RenderLines(Tail(lines), w)

\* TermRenderer.Render of an engine built with WithWordWrap(w): a blank
\* line, then every line indented and padded to the width, then a newline
GlamourRender(text, w) ==
  RenderLines(Split(text, "\n"), w) \o << "\n" >>

\* ------------------------------------------------------------------------
\* DualPaneModel: the helpers of Update.  A helper takes and returns the
\* record s of the model's fields together with the package-level
\* dualRendererCache (field cache); io holds the outcomes of the external
\* calls made while the message is handled.
\* ------------------------------------------------------------------------

\* the renderer field: NoRenderer is nil, otherwise the engine's wrap width
NoRenderer == 0

\* the default width of ensureRenderer
DefaultWidth == 60

findTreeLineForFile(fileIndex, treeLines, allFiles) ==
  IF fileIndex < 0 \/ fileIndex >= Len(allFiles) THEN 0
  ELSE LET filename == PathBase(allFiles[fileIndex + 1])
           hits == {i \in 1..Len(treeLines) :
                      /\ Contains(treeLines[i], << "[", "-", "]" >>)
                      /\ Contains(treeLines[i], filename)}
       IN IF hits = {} THEN 0
          ELSE (CHOOSE i \in hits : \A j \in hits : i <= j) - 1

ensureRenderer(s, io) ==
  IF s.renderer # NoRenderer THEN s
  ELSE IF DefaultWidth \in s.cache THEN [s EXCEPT !.renderer = DefaultWidth]
  ELSE IF io.createOk
  THEN [s EXCEPT !.renderer = DefaultWidth,
                 !.cache = @ \cup {DefaultWidth}]
  ELSE s

refreshContent(s, io) ==
  IF s.raw THEN [s EXCEPT !.renderedLines = Split(s.currentContent, "\n")]
  ELSE Let(ensureRenderer(s, io),
           LAMBDA e :
             IF e.renderer # NoRenderer
             THEN LET rendered ==
                        IF io.renderOk
                        THEN GlamourRender(e.currentContent, e.renderer)
                        ELSE e.currentContent
                  IN [e EXCEPT !.renderedLines = Split(rendered, "\n")]
             ELSE [e EXCEPT !.renderedLines = Split(e.currentContent, "\n")])

\* fmt.Sprintf("Error loading file: %v", err) for the error of os.ReadFile
LoadErrorText(path) ==
  << "E", "r", "r", "o", "r", " ", "l", "o", "a", "d", "i", "n", "g", " ",
     "f", "i", "l", "e", ":", " ", "o", "p", "e", "n", " " >> \o path

\* loadFile that reads nothing
loadFile_Skip(s, index, io) == s

loadFile(s, index, io) ==
  IF index < 0 \/ index >= Len(s.allFiles) THEN s
  ELSE Let(ReadFile(io.fs, s.allFiles[index + 1]),
           LAMBDA r :
             IF r.err
             THEN LET text == LoadErrorText(s.allFiles[index + 1])
                  IN [s EXCEPT !.currentContent = text,
                               !.renderedLines = Split(text, "\n")]
             ELSE Let([s EXCEPT !.currentContent = r.content],
                      LAMBDA s1 : [refreshContent(s1, io)
                                     EXCEPT !.contentViewport = 0]))

adjustTreeViewport(s) ==
  LET availableHeight == s.height - 2
  IN IF s.treeSelectedIdx < s.treeViewport
     THEN [s EXCEPT !.treeViewport = s.treeSelectedIdx]
     ELSE IF s.treeSelectedIdx >= s.treeViewport + availableHeight
     THEN [s EXCEPT !.treeViewport = s.treeSelectedIdx - availableHeight + 1]
     ELSE s

\* int(float64(width) * (1 - splitRatio))
ContentWidth(width, splitRatio) == IntOfRest[<< width, splitRatio >>]

\* the lower bound of the wrap width in updateRendererWidth
MinWrapWidth == 40

updateRendererWidth(s, io) ==
  LET contentWidth == ContentWidth(s.width, s.splitRatio)
      wrappingWidth == Max(MinWrapWidth, contentWidth - 6)
  IN IF wrappingWidth \in s.cache THEN [s EXCEPT !.renderer = wrappingWidth]
     ELSE IF io.createOk
     THEN Let([s EXCEPT !.renderer = wrappingWidth,
                        !.cache = @ \cup {wrappingWidth}],
              LAMBDA s1 : refreshContent(s1, io))
     ELSE s


\* ------------------------------------------------------------------------
\* DualPaneModel: construction and the message handlers of Update.
\* A handler returns the new fields (s) and the command Update returns (cmd).
\* ------------------------------------------------------------------------

\* the depth limit of the automatic deepening
DepthCeiling == 5

\* the tea.Cmd values Update returns
CmdNil == "nil"

\* the closure that runs FindMarkdownFilesQuick and reports loadCompleteMsg
CmdQuickScan == "FindMarkdownFilesQuick"

\* tea.Tick(500ms) reporting expandTreeMsg
CmdTickExpand == "Tick500 expandTreeMsg"

\* tea.Tick(50ms) reporting performExpansionMsg
CmdTickPerform == "Tick50 performExpansionMsg"

CmdQuit == "tea.Quit"

Str_Loading == << "L", "o", "a", "d", "i", "n", "g", ".", ".", "." >>

Str_LoadingFiles ==
  << "L", "o", "a", "d", "i", "n", "g", " ", "m", "a", "r", "k", "d", "o",
     "w", "n", " ", "f", "i", "l", "e", "s", ".", ".", "." >>

emptyTree == FileNode(Str_Loading, RootPath, TRUE, << >>)

NewDualPaneModel(includeIgnored) ==
  [fileTree |-> emptyTree,
   allFiles |-> << >>,
   treeLines |-> << Str_LoadingFiles >>,
   selectedIndex |-> 0,
   treeViewport |-> 0,
   contentViewport |-> 0,
   currentContent |-> << >>,
   renderedLines |-> << >>,
   width |-> 0,
   height |-> 0,
   splitRatio |-> "0.3",
   renderer |-> NoRenderer,
   focusedPane |-> 0,
   raw |-> FALSE,
   treeSelectedIdx |-> 0,
   includeIgnored |-> includeIgnored,
   isExpanding |-> FALSE,
   currentDepth |-> -1]

expandTree(s) == IF s.isExpanding THEN CmdNil ELSE CmdTickPerform

\* the start of the depth-0 scan that does not mark a scan as in flight
UpdateInitialLoad_Unmarked(s) ==
  IF s.currentDepth = -1
  THEN [s |-> [s EXCEPT !.currentDepth = 0], cmd |-> CmdQuickScan]
  ELSE [s |-> s, cmd |-> CmdNil]

\* the start of the depth-0 scan that does not test for the first start
UpdateInitialLoad_Always(s) ==
  [s |-> [s EXCEPT !.currentDepth = 0, !.isExpanding = TRUE],
   cmd |-> CmdQuickScan]

UpdateInitialLoad(s) ==
  IF s.currentDepth = -1
  THEN [s |-> [s EXCEPT !.currentDepth = 0, !.isExpanding = TRUE],
        cmd |-> CmdQuickScan]
  ELSE [s |-> s, cmd |-> CmdNil]

\* "Error loading files: " + msg.err.Error()
Str_ErrorLoadingFiles ==
  << "E", "r", "r", "o", "r", " ", "l", "o", "a", "d", "i", "n", "g", " ",
     "f", "i", "l", "e", "s", ":", " " >>

UpdateLoadComplete(s, msg, io) ==
  IF msg.err
  THEN [s |-> [s EXCEPT !.treeLines = << Str_ErrorLoadingFiles >>,
                        !.isExpanding = FALSE],
        cmd |-> CmdNil]
  ELSE
  Let([s EXCEPT !.fileTree = msg.tree,
                !.allFiles = CollectFiles(msg.tree),
                !.treeLines = FlattenTree(msg.tree, << >>, FALSE),
                !.isExpanding = FALSE],
      LAMBDA s1 :
        [s |-> IF Len(s1.allFiles) > 0
               THEN Let([s1 EXCEPT !.selectedIndex = 0,
                                   !.treeSelectedIdx =
                                     findTreeLineForFile(0, s1.treeLines,
                                                         s1.allFiles)],
                        LAMBDA s2 : loadFile(s2, 0, io))
               ELSE s1,
         cmd |-> CmdTickExpand])

UpdateExpandTree(s) == [s |-> s, cmd |-> expandTree(s)]

\* a scan that found as many documents also counts
FoundMore_OrAsMany(newFiles, allFiles) == Len(newFiles) >= Len(allFiles)

\* only update if we found more files
FoundMore(newFiles, allFiles) == Len(newFiles) > Len(allFiles)

\* the cadence that never stops
ContinueExpansion_Always(s) == expandTree(s)

\* the cadence that takes one step more
ContinueExpansion_Through(s) ==
  IF s.currentDepth <= DepthCeiling THEN expandTree(s) ELSE CmdNil

\* continue expanding if we haven't reached max depth
ContinueExpansion(s) ==
  IF s.currentDepth < DepthCeiling THEN expandTree(s) ELSE CmdNil

UpdatePerformExpansion(s, io) ==
  IF ~s.isExpanding
  THEN LET depth == s.currentDepth + 1
           s1 == [s EXCEPT !.currentDepth = depth]
           replaced(newTree, newFiles) ==
             IF FoundMore(newFiles, s1.allFiles)
             THEN Let([s1 EXCEPT !.fileTree = newTree,
                                 !.allFiles = newFiles,
                                 !.treeLines =
                                   FlattenTree(newTree, << >>, FALSE)],
                      LAMBDA r :
                        IF r.selectedIndex < Len(r.allFiles)
                        THEN [r EXCEPT !.treeSelectedIdx =
                                findTreeLineForFile(r.selectedIndex,
                                                    r.treeLines, r.allFiles)]
                        ELSE r)
             ELSE s1
           s2 == Let(FindMarkdownFilesWithDepth(io.fs, s.includeIgnored,
                                                depth),
                     LAMBDA newTree :
                       Let(CollectFiles(newTree),
                           LAMBDA newFiles : replaced(newTree, newFiles)))
       IN Let([s2 EXCEPT !.isExpanding = FALSE],
              LAMBDA s3 : [s |-> s3, cmd |-> ContinueExpansion(s3)])
  ELSE [s |-> s, cmd |-> CmdNil]

\* a resize that starts a deepening step
UpdateWindowSize_Rescan(s, msg, io) ==
  [s |-> updateRendererWidth([s EXCEPT !.width = msg.Width,
                                       !.height = msg.Height - 2], io),
   cmd |-> expandTree(s)]

UpdateWindowSize(s, msg, io) ==
  [s |-> updateRendererWidth([s EXCEPT !.width = msg.Width,
                                       !.height = msg.Height - 2], io),
   cmd |-> CmdNil]

KeyQuit(s) == [s |-> s, cmd |-> CmdQuit]

KeyTab(s) ==
  [s |-> [s EXCEPT !.focusedPane = (s.focusedPane + 1) % 2], cmd |-> CmdNil]

KeyLeft(s) ==
  [s |-> IF s.focusedPane = 1 THEN [s EXCEPT !.focusedPane = 0] ELSE s,
   cmd |-> CmdNil]

KeyRight(s) ==
  [s |-> IF s.focusedPane = 0 THEN [s EXCEPT !.focusedPane = 1] ELSE s,
   cmd |-> CmdNil]

KeyDown(s, io) ==
  [s |-> IF s.focusedPane = 0
         THEN IF s.selectedIndex < Len(s.allFiles) - 1
              THEN LET s1 == [s EXCEPT !.selectedIndex = s.selectedIndex + 1]
                       s2 == [s1 EXCEPT !.treeSelectedIdx =
                                findTreeLineForFile(s1.selectedIndex,
                                                    s1.treeLines, s1.allFiles)]
                   IN Let(loadFile(s2, s2.selectedIndex, io),
                          LAMBDA s3 : adjustTreeViewport(s3))
              ELSE s
         ELSE LET availableHeight == s.height - 2
              IN IF s.contentViewport < Len(s.renderedLines) - availableHeight
                 THEN [s EXCEPT !.contentViewport = @ + 1]
                 ELSE s,
   cmd |-> CmdNil]

KeyUp(s, io) ==
  [s |-> IF s.focusedPane = 0
         THEN IF s.selectedIndex > 0
              THEN LET s1 == [s EXCEPT !.selectedIndex = s.selectedIndex - 1]
                       s2 == [s1 EXCEPT !.treeSelectedIdx =
                                findTreeLineForFile(s1.selectedIndex,
                                                    s1.treeLines, s1.allFiles)]
                   IN Let(loadFile(s2, s2.selectedIndex, io),
                          LAMBDA s3 : adjustTreeViewport(s3))
              ELSE s
         ELSE IF s.contentViewport > 0
              THEN [s EXCEPT !.contentViewport = @ - 1]
              ELSE s,
   cmd |-> CmdNil]

KeyEnter(s) ==
  [s |-> IF /\ s.focusedPane = 0
            /\ s.selectedIndex >= 0
            /\ s.selectedIndex < Len(s.allFiles)
         THEN [s EXCEPT !.focusedPane = 1, !.contentViewport = 0]
         ELSE s,
   cmd |-> CmdNil]

KeyPageDown(s) ==
  [s |-> IF s.focusedPane = 1
         THEN LET availableHeight == s.height - 2
                  moved == s.contentViewport + GoDiv(availableHeight, 2)
              IN IF moved > Len(s.renderedLines) - availableHeight
                 THEN [s EXCEPT !.contentViewport =
                         Max(0, Len(s.renderedLines) - availableHeight)]
                 ELSE [s EXCEPT !.contentViewport = moved]
         ELSE s,
   cmd |-> CmdNil]

KeyPageUp(s) ==
  [s |-> IF s.focusedPane = 1
         THEN LET availableHeight == s.height - 2
                  moved == s.contentViewport - GoDiv(availableHeight, 2)
              IN [s EXCEPT !.contentViewport = IF moved < 0 THEN 0 ELSE moved]
         ELSE s,
   cmd |-> CmdNil]

\* the move to the first document that keeps the selected line
KeyHome_StaleLine(s, io) ==
  [s |-> IF s.focusedPane = 1 THEN [s EXCEPT !.contentViewport = 0]
         ELSE LET s1 == [s EXCEPT !.selectedIndex = 0, !.treeViewport = 0]
              IN IF Len(s1.allFiles) > 0 THEN loadFile(s1, 0, io) ELSE s1,
   cmd |-> CmdNil]

KeyHome(s, io) ==
  [s |-> IF s.focusedPane = 1 THEN [s EXCEPT !.contentViewport = 0]
         ELSE LET s1 == [s EXCEPT !.selectedIndex = 0,
                                  !.treeSelectedIdx =
                                    findTreeLineForFile(0, s.treeLines,
                                                        s.allFiles),
                                  !.treeViewport = 0]
              IN IF Len(s1.allFiles) > 0 THEN loadFile(s1, 0, io) ELSE s1,
   cmd |-> CmdNil]

KeyEnd(s, io) ==
  [s |-> IF s.focusedPane = 1
         THEN LET availableHeight == s.height - 2
              IN [s EXCEPT !.contentViewport =
                    Max(0, Len(s.renderedLines) - availableHeight)]
         ELSE LET s1 == [s EXCEPT !.selectedIndex = Len(s.allFiles) - 1]
                  s2 == [s1 EXCEPT !.treeSelectedIdx =
                           findTreeLineForFile(s1.selectedIndex, s1.treeLines,
                                               s1.allFiles)]
              IN Let(loadFile(s2, s2.selectedIndex, io),
                     LAMBDA s3 : adjustTreeViewport(s3)),
   cmd |-> CmdNil]

\* the toggle that flips the flag and renders nothing anew
KeyRaw_NoRefresh(s, io) == [s |-> [s EXCEPT !.raw = ~s.raw], cmd |-> CmdNil]

KeyRaw(s, io) ==
  [s |-> refreshContent([s EXCEPT !.raw = ~s.raw], io), cmd |-> CmdNil]

\* a narrow command that takes two steps of 0.05
KeyNarrow_TwoSteps(s, io) ==
  [s |-> updateRendererWidth(
           [s EXCEPT !.splitRatio =
              IF FloatRank(FloatMinus005[@]) <= FloatRank("0.2") THEN "0.2"
              ELSE maxFloat("0.2", FloatMinus005[FloatMinus005[@]])],
           io),
   cmd |-> CmdNil]

KeyNarrow(s, io) ==
  [s |-> updateRendererWidth([s EXCEPT !.splitRatio =
                                          maxFloat("0.2", FloatMinus005[@])],
                             io),
   cmd |-> CmdNil]

KeyWiden(s, io) ==
  [s |-> updateRendererWidth([s EXCEPT !.splitRatio =
                                          minFloat("0.5", FloatPlus005[@])],
                             io),
   cmd |-> CmdNil]

\* the manual request that does not look at the scan in flight
KeyExpand_Always(s) == [s |-> s, cmd |-> CmdTickPerform]

KeyExpand(s) ==
  IF ~s.isExpanding THEN [s |-> s, cmd |-> expandTree(s)]
  ELSE [s |-> s, cmd |-> CmdNil]

\* the switch on msg.String() of the tea.KeyMsg case
UpdateKey(s, key, io) ==
  CASE key \in {"q", "ctrl+c"} -> KeyQuit(s)
    [] key = "tab" -> KeyTab(s)
    [] key = "h" -> KeyLeft(s)
    [] key = "l" -> KeyRight(s)
    [] key = "j" -> KeyDown(s, io)
    [] key = "k" -> KeyUp(s, io)
    [] key = "enter" -> KeyEnter(s)
    [] key = "ctrl+d" -> KeyPageDown(s)
    [] key = "ctrl+u" -> KeyPageUp(s)
    [] key = "g" -> KeyHome(s, io)
    [] key = "G" -> KeyEnd(s, io)
    [] key = "r" -> KeyRaw(s, io)
    [] key = "<" -> KeyNarrow(s, io)
    [] key = ">" -> KeyWiden(s, io)
    [] key = "e" -> KeyExpand(s)
    [] OTHER -> [s |-> s, cmd |-> CmdNil]

\* int(float64(width) * splitRatio), the first column of the content pane
TreeWidth(width, splitRatio) == IntOfProduct[<< width, splitRatio >>]

\* the tea.MouseMsg case: the wheel scrolls the pane under the pointer
UpdateMouse(s, msg) ==
  [s |-> IF msg.Type \in {"MouseWheelUp", "MouseWheelDown"}
         THEN IF msg.X < TreeWidth(s.width, s.splitRatio)
              THEN IF msg.Type = "MouseWheelUp" /\ s.treeViewport > 0
                   THEN [s EXCEPT !.treeViewport = @ - 1]
                   ELSE IF /\ msg.Type = "MouseWheelDown"
                           /\ s.treeViewport < Len(s.treeLines) - (s.height - 2)
                   THEN [s EXCEPT !.treeViewport = @ + 1]
                   ELSE s
              ELSE LET availableHeight == s.height - 2
                   IN IF msg.Type = "MouseWheelUp" /\ s.contentViewport > 0
                      THEN [s EXCEPT !.contentViewport = @ - 1]
                      ELSE IF /\ msg.Type = "MouseWheelDown"
                              /\ s.contentViewport
                                   < Len(s.renderedLines) - availableHeight
                      THEN [s EXCEPT !.contentViewport = @ + 1]
                      ELSE s
         ELSE s,
   cmd |-> CmdNil]
\* DualPaneModel.View indexes treeLines or renderedLines outside their
\* bounds and panics
DualViewPanics(s) ==
  /\ s.height # 0
  /\ LET availableHeight == s.height - 2
         endLine == Min(s.contentViewport + availableHeight,
                        Len(s.renderedLines))
     IN \/ \E i \in 0..(availableHeight - 1) :
             LET lineIdx == s.treeViewport + i
             IN lineIdx < Len(s.treeLines) /\ lineIdx < 0
        \/ \E i \in s.contentViewport..(endLine - 1) :
             i < 0 \/ i >= Len(s.renderedLines)

\* ------------------------------------------------------------------------
\* SingleFileModel: the view of one document.  A handler takes the record
\* s of the model's fields and returns the fields and the command.
\* ------------------------------------------------------------------------

\* a *glamour.TermRenderer: its wrap width and which of the engines built
\* for that width it is; NilRenderer is nil
Renderer(width, id) == [width |-> width, id |-> id]

NilRenderer == Renderer(0, 0)

CmdCreateRenderer == "createRendererInBackground"

CmdRenderContent == "renderContentAsync"

CmdReadFile == "Tick1 os.ReadFile"

CmdFileLoaded == "fileLoadedMsg"

\* a command with the arguments its closure has captured
SingleCmd(kind, width, content, renderer, raw) ==
  [kind |-> kind, width |-> width, content |-> content,
   renderer |-> renderer, raw |-> raw]

SingleNil == SingleCmd(CmdNil, 0, << >>, NilRenderer, FALSE)

SingleQuit == SingleCmd(CmdQuit, 0, << >>, NilRenderer, FALSE)

\* a message of the single-file view: fileLoadedMsg{content, err},
\* rendererCreatedMsg{renderer, err}, contentRenderedMsg{lines, err}
SingleMsg(type, content, lines, renderer, err) ==
  [type |-> type, content |-> content, lines |-> lines,
   renderer |-> renderer, err |-> err]

Str_LoadingFile ==
  << "L", "o", "a", "d", "i", "n", "g", " ", "f", "i", "l", "e", ".", ".",
     "." >>

NewSingleFileModel(filepath) ==
  [filepath |-> filepath, content |-> << >>, lines |-> << Str_LoadingFile >>,
   viewport |-> 0, width |-> 0, height |-> 0, renderer |-> NilRenderer,
   raw |-> FALSE, contentLoaded |-> FALSE, rendererCreated |-> FALSE]

NewSingleFileModelWithContent(filepath, content) ==
  [filepath |-> filepath, content |-> content, lines |-> << Str_Loading >>,
   viewport |-> 0, width |-> 0, height |-> 0, renderer |-> NilRenderer,
   raw |-> FALSE, contentLoaded |-> TRUE, rendererCreated |-> FALSE]

\* SingleFileModel.Init: the command that reports the document
SingleInit(s) ==
  IF s.contentLoaded
  THEN SingleCmd(CmdFileLoaded, 0, s.content, NilRenderer, FALSE)
  ELSE SingleCmd(CmdReadFile, 0, << >>, NilRenderer, FALSE)

\* the function of Init's command, run off the event loop
RunInit(c, filepath, fsys) ==
  IF c.kind = CmdFileLoaded
  THEN SingleMsg("fileLoadedMsg", c.content, << >>, NilRenderer, FALSE)
  ELSE Let(ReadFile(fsys, filepath),
           LAMBDA r :
             IF r.err
             THEN SingleMsg("fileLoadedMsg", << >>, << >>, NilRenderer, TRUE)
             ELSE SingleMsg("fileLoadedMsg", r.content, << >>, NilRenderer,
                            FALSE))

\* the function of renderContentAsync's command, run off the event loop
renderContentAsync(content, renderer, raw, io) ==
  IF raw \/ renderer = NilRenderer \/ content = << >>
  THEN SingleMsg("contentRenderedMsg", << >>, Split(content, "\n"),
                 NilRenderer, FALSE)
  ELSE IF ~io.renderOk
  THEN SingleMsg("contentRenderedMsg", << >>, Split(content, "\n"),
                 NilRenderer, TRUE)
  ELSE SingleMsg("contentRenderedMsg", << >>,
                 Split(GlamourRender(content, renderer.width), "\n"),
                 NilRenderer, FALSE)

\* the width of the first engine when no size has arrived
SingleDefaultWidth == 80

\* a fileLoadedMsg case that goes on to build an engine after an error
SingleFileLoaded_ErrorBuilds(s, msg) ==
  [s |-> IF msg.err
         THEN [s EXCEPT !.lines = << LoadErrorText(s.filepath) >>]
         ELSE [s EXCEPT !.content = msg.content, !.contentLoaded = TRUE,
                        !.lines = Split(msg.content, "\n")],
   cmd |-> SingleCmd(CmdCreateRenderer, SingleDefaultWidth, << >>,
                     NilRenderer, FALSE)]

SingleFileLoaded(s, msg) ==
  IF msg.err
  THEN [s |-> [s EXCEPT !.lines = << LoadErrorText(s.filepath) >>],
        cmd |-> SingleNil]
  ELSE Let([s EXCEPT !.content = msg.content, !.contentLoaded = TRUE,
                     !.lines = Split(msg.content, "\n")],
           LAMBDA s1 :
             IF ~s1.raw /\ s1.renderer = NilRenderer
             THEN [s |-> s1,
                   cmd |-> SingleCmd(CmdCreateRenderer,
                                     IF s1.width > 0 THEN s1.width
                                     ELSE SingleDefaultWidth,
                                     << >>, NilRenderer, FALSE)]
             ELSE IF ~s1.raw /\ s1.renderer # NilRenderer
             THEN [s |-> s1,
                   cmd |-> SingleCmd(CmdRenderContent, 0, s1.content,
                                     s1.renderer, s1.raw)]
             ELSE [s |-> s1, cmd |-> SingleNil])

SingleRendererCreated(s, msg) ==
  IF msg.err THEN [s |-> s, cmd |-> SingleNil]
  ELSE Let([s EXCEPT !.renderer = msg.renderer],
           LAMBDA s1 :
             IF ~s1.raw /\ s1.content # << >>
             THEN [s |-> s1,
                   cmd |-> SingleCmd(CmdRenderContent, 0, s1.content,
                                     s1.renderer, s1.raw)]
             ELSE [s |-> s1, cmd |-> SingleNil])

SingleContentRendered(s, msg) ==
  [s |-> IF ~msg.err THEN [s EXCEPT !.lines = msg.lines]
         ELSE [s EXCEPT !.lines = Split(s.content, "\n")],
   cmd |-> SingleNil]

SingleWindowSize(s, msg) ==
  Let([s EXCEPT !.width = msg.Width, !.height = msg.Height],
      LAMBDA s1 :
        IF ~s1.raw /\ s1.width > 0 /\ s1.content # << >>
        THEN [s |-> [s1 EXCEPT !.renderer = NilRenderer],
              cmd |-> SingleCmd(CmdCreateRenderer, s1.width, << >>,
                                NilRenderer, FALSE)]
        ELSE [s |-> s1, cmd |-> SingleNil])

SingleKeyDown(s) ==
  IF s.viewport < Len(s.lines) - s.height
  THEN [s EXCEPT !.viewport = @ + 1] ELSE s

SingleKeyUp(s) ==
  IF s.viewport > 0 THEN [s EXCEPT !.viewport = @ - 1] ELSE s

\* the upper clamp shared by ctrl+d and space
SingleClampBottom(s) ==
  IF s.viewport > Len(s.lines) - s.height
  THEN [s EXCEPT !.viewport = Max(0, Len(s.lines) - s.height)] ELSE s

SingleKeyPageDown(s) ==
  SingleClampBottom([s EXCEPT !.viewport = @ + GoDiv(s.height, 2)])

SingleKeyPageUp(s) ==
  Let([s EXCEPT !.viewport = @ - GoDiv(s.height, 2)],
      LAMBDA s1 : IF s1.viewport < 0 THEN [s1 EXCEPT !.viewport = 0] ELSE s1)

SingleKeyHome(s) == [s EXCEPT !.viewport = 0]

SingleKeyEnd(s) == [s EXCEPT !.viewport = Max(0, Len(s.lines) - s.height)]

SingleKeySpace(s) ==
  SingleClampBottom([s EXCEPT !.viewport = @ + s.height - 1])

SingleKeyRaw(s) ==
  Let([s EXCEPT !.raw = ~s.raw],
      LAMBDA s1 :
        IF s1.content # << >> /\ s1.renderer # NilRenderer
        THEN [s |-> s1,
              cmd |-> SingleCmd(CmdRenderContent, 0, s1.content, s1.renderer,
                                s1.raw)]
        ELSE [s |-> s1, cmd |-> SingleNil])

\* the switch on msg.String() of the tea.KeyMsg case
SingleKey(s, key) ==
  CASE key \in {"q", "ctrl+c", "esc"} -> [s |-> s, cmd |-> SingleQuit]
    [] key = "j" -> [s |-> SingleKeyDown(s), cmd |-> SingleNil]
    [] key = "k" -> [s |-> SingleKeyUp(s), cmd |-> SingleNil]
    [] key = "ctrl+d" -> [s |-> SingleKeyPageDown(s), cmd |-> SingleNil]
    [] key = "ctrl+u" -> [s |-> SingleKeyPageUp(s), cmd |-> SingleNil]
    [] key = "g" -> [s |-> SingleKeyHome(s), cmd |-> SingleNil]
    [] key = "G" -> [s |-> SingleKeyEnd(s), cmd |-> SingleNil]
    [] key = "r" -> SingleKeyRaw(s)
    [] key = " " -> [s |-> SingleKeySpace(s), cmd |-> SingleNil]
    [] OTHER -> [s |-> s, cmd |-> SingleNil]

\* a message without a case in Update, such as tea.MouseMsg
SingleOther(s) == [s |-> s, cmd |-> SingleNil]

\* SingleFileModel.View indexes lines outside its bounds and panics
SingleViewPanics(s) ==
  /\ s.height # 0
  /\ LET endLine == Min(s.viewport + s.height, Len(s.lines))
     IN \E i \in s.viewport..(endLine - 1) : i < 0 \/ i >= Len(s.lines)


\* ------------------------------------------------------------------------
\* The filesystems the model is run on
\* ------------------------------------------------------------------------

Name_a == << "a", ".", "m", "d" >>

Name_b == << "b", ".", "m", "d" >>

Name_c == << "c", ".", "M", "D" >>

Name_d == << "d" >>

Name_e == << "e" >>

Name_git == << ".", "g" >>

Name_txt == << "n", ".", "t", "x", "t" >>

Text_a == << "#", " ", "a", "\n", "b" >>

Text_b == << "b" >>

Text_c == << >>

Name_f == << "f" >>

\* documents at three levels, a.md, d/b.md and d/e/f/c.MD (level 2 adds a
\* directory and no document); a hidden directory and a file that is no
\* document
FsDeep ==
  [entries |->
     << FsDir(Name_git, << FsFile(Name_a, Text_a, TRUE) >>, TRUE),
        FsFile(Name_a, Text_a, TRUE),
        FsDir(Name_d,
              << FsFile(Name_b, Text_b, TRUE),
                 FsDir(Name_e,
                       << FsDir(Name_f, << FsFile(Name_c, Text_c, TRUE) >>,
                                TRUE) >>,
                       TRUE) >>,
              TRUE),
        FsFile(Name_txt, Text_b, TRUE) >>,
   rootReadable |-> TRUE, ignoreFile |-> "none", ignored |-> {}]

\* no document directly in the root, one a level below
FsBelow ==
  [entries |-> << FsDir(Name_d, << FsFile(Name_b, Text_b, TRUE) >>, TRUE) >>,
   rootReadable |-> TRUE, ignoreFile |-> "none", ignored |-> {}]

\* two documents in the root, nothing below; b.md cannot be read and is
\* matched by the .gitignore
FsFlat ==
  [entries |-> << FsFile(Name_a, Text_a, TRUE),
                  FsFile(Name_b, Text_b, FALSE) >>,
   rootReadable |-> TRUE, ignoreFile |-> "ok", ignored |-> {Name_b}]

\* a document that cannot be read in a subdirectory, a readable one of two
\* lines in the root
FsView ==
  [entries |-> << FsFile(Name_a, Text_a, TRUE),
                  FsDir(Name_d, << FsFile(Name_b, Text_b, FALSE) >>, TRUE) >>,
   rootReadable |-> TRUE, ignoreFile |-> "none", ignored |-> {}]

\* a working directory that cannot be listed
FsLocked ==
  [entries |-> << FsFile(Name_a, Text_a, TRUE) >>,
   rootReadable |-> FALSE, ignoreFile |-> "none", ignored |-> {}]

\* an empty document next to one of two lines
FsBlank ==
  [entries |-> << FsFile(Name_a, Text_a, TRUE),
                  FsFile(Name_b, Text_c, TRUE) >>,
   rootReadable |-> TRUE, ignoreFile |-> "none", ignored |-> {}]

\* the entries a working directory may hold, in ReadDir order: two
\* documents, a directory with documents of the same names, a directory
\* with a document two levels down, a directory without documents
CandidateEntries ==
  << FsFile(Name_a, Text_a, TRUE),
     FsFile(Name_b, Text_b, TRUE),
     FsDir(Name_d, << FsFile(Name_a, Text_b, TRUE),
                      FsFile(Name_b, Text_a, TRUE) >>, TRUE),
     FsDir(Name_e, << FsDir(Name_f, << FsFile(Name_c, Text_c, TRUE) >>,
                            TRUE) >>, TRUE),
     FsDir(Name_f, << FsFile(Name_txt, Text_b, TRUE) >>, TRUE) >>

\* the working directory that holds the candidate entries chosen by S
FsOf(S) ==
  [entries |-> SelectSeq(CandidateEntries,
                         LAMBDA e : \E k \in S : CandidateEntries[k] = e),
   rootReadable |-> TRUE, ignoreFile |-> "none", ignored |-> {}]

Name_B == << "B", ".", "m", "d" >>

Name_ba == << "b", "a", ".", "m", "d" >>

Name_hidden == << ".", "e", ".", "m", "d" >>

Name_fmd == << "f", ".", "m", "d" >>

\* the entries a scanned directory may hold, in ReadDir (byte) order: a
\* hidden document, a hidden directory with a document, a document with an
\* upper-case name, a document, a directory with a document whose name ends
\* in the name of another and a subdirectory with a hidden and a plain
\* document, a directory that cannot be listed, a document after it
ScanEntries ==
  << FsFile(Name_hidden, Text_b, TRUE),
     FsDir(Name_git, << FsFile(Name_a, Text_a, TRUE) >>, TRUE),
     FsFile(Name_B, Text_b, TRUE),
     FsFile(Name_a, Text_a, TRUE),
     FsDir(Name_d, << FsFile(Name_ba, Text_b, TRUE),
                      FsDir(Name_e, << FsFile(Name_hidden, Text_b, TRUE),
                                       FsFile(Name_b, Text_b, TRUE) >>,
                            TRUE) >>, TRUE),
     FsDir(Name_e, << FsFile(Name_c, Text_c, TRUE) >>, FALSE),
     FsFile(Name_fmd, Text_b, TRUE) >>

\* the relative paths the patterns of the .gitignore match: a document of
\* the root and a directory a level below
IgnoredPaths == {Name_a, PathJoin(Name_d, Name_e)}

\* the .gitignore of the root: absent, loaded, or present and not loadable
IgnoreFiles == {"none", "ok", "unreadable"}

\* the working directory that holds the scan entries chosen by S, with the
\* .gitignore in the given condition
FsScan(S, ignoreFile) ==
  [entries |-> SelectSeq(ScanEntries,
                         LAMBDA e : \E k \in S : ScanEntries[k] = e),
   rootReadable |-> TRUE, ignoreFile |-> ignoreFile,
   ignored |-> IF ignoreFile = "none" THEN {} ELSE IgnoredPaths]

\* the working directories and -i settings the program is started with
Starts ==
  {[fs |-> FsDeep, includeIgnored |-> FALSE],
   [fs |-> FsBelow, includeIgnored |-> FALSE],
   [fs |-> FsFlat, includeIgnored |-> FALSE],
   [fs |-> FsFlat, includeIgnored |-> TRUE]}

\* ------------------------------------------------------------------------
\* The program: the bubbletea event loop around DualPaneModel.Update
\* ------------------------------------------------------------------------

VARIABLES
  m,                  \* the DualPaneModel
  dualRendererCache,  \* widths of the engines in the package-level cache
  fs,                 \* the filesystem under the working directory
  msgs,               \* messages on their way to Update (results of running
                      \* commands and of pending ticks), a bag
  handled,            \* the message Update handled last
  cmd,                \* the command Update returned last
  quit,               \* the program has ended (tea.Quit)
  sf,                 \* the SingleFileModel
  rendererCache,      \* the package-level cache of the single-file view:
                      \* the engines in it, one for a width
  sfMsgs,             \* messages on their way to SingleFileModel.Update
  creating,           \* the createRendererInBackground commands running
  built               \* how many engines were constructed for each width

\* the state of the single-file view
singleVars == << sf, rendererCache, sfMsgs, creating, built >>

\* the state of the dual-pane view
dualVars == << m, dualRendererCache, msgs >>

vars == << m, dualRendererCache, fs, msgs, handled, cmd, quit, sf,
           rendererCache, sfMsgs, creating, built >>

NoTree == FileNode(<< >>, << >>, TRUE, << >>)

\* a message without payload
Msg(type) == [type |-> type, tree |-> NoTree, err |-> FALSE]

\* loadCompleteMsg{tree: tree, err: nil}
LoadCompleteMsg(tree) ==
  [type |-> "loadCompleteMsg", tree |-> tree, err |-> FALSE]

Handled(type, key) == [type |-> type, key |-> key]

\* the fields of m together with the renderer cache, as the helpers take it
Cur == [f \in DOMAIN m \cup {"cache"} |->
          IF f = "cache" THEN dualRendererCache ELSE m[f]]

\* the outcomes of the external calls made while a message is handled:
\* whether glamour.NewTermRenderer and TermRenderer.Render succeed
IoOutcomes(creates, renders) ==
  {[fs |-> fs, createOk |-> c, renderOk |-> r] : c \in creates,
                                                  r \in renders}

\* every engine call succeeds
IoOk == IoOutcomes({TRUE}, {TRUE})

\* the message a command reports when it has run
CmdResult(c, s) ==
  CASE c = CmdQuickScan ->
         SetToBag({LoadCompleteMsg(FindMarkdownFilesQuick(fs,
                                                         s.includeIgnored))})
    [] c = CmdTickExpand -> SetToBag({Msg("expandTreeMsg")})
    [] c = CmdTickPerform -> SetToBag({Msg("performExpansionMsg")})
    [] OTHER -> EmptyBag

\* the event loop takes the result r of Update: the fields, the command
Commit(r, taken, what) ==
  /\ m' = [f \in DOMAIN m |-> r.s[f]]
  /\ dualRendererCache' = r.s.cache
  /\ msgs' = (msgs (-) taken) (+) CmdResult(r.cmd, r.s)
  /\ handled' = what
  /\ cmd' = r.cmd
  /\ quit' = (r.cmd = CmdQuit)
  /\ fs' = fs
  /\ UNCHANGED singleVars

Pending(type) == {x \in BagToSet(msgs) : x.type = type}

\* main has built a SingleFileModel
SingleMode == sf.filepath # << >>

\* the View that the event loop calls after Update panics
ViewPanics ==
  IF SingleMode THEN SingleViewPanics(sf) ELSE DualViewPanics(m)

\* the event loop is running: no tea.Quit was returned and View has not
\* panicked
Running == ~quit /\ ~ViewPanics

\* the number of deepening messages scheduled and not yet handled
PendingExpansions ==
  CopiesIn(Msg("expandTreeMsg"), msgs)
  + CopiesIn(Msg("performExpansionMsg"), msgs)

\* the widths of the terminal
Widths == {80, 100}

\* no single-file view: main has built no SingleFileModel
NoSingleFile ==
  /\ sf = NewSingleFileModel(<< >>)
  /\ rendererCache = {}
  /\ sfMsgs = EmptyBag
  /\ creating = EmptyBag
  /\ built = [w \in Widths |-> 0]

\* main in dual-pane mode, started in one of the given working directories
StartDualPane(starts) ==
  /\ \E start \in starts :
       /\ fs = start.fs
       /\ m = NewDualPaneModel(start.includeIgnored)
  /\ NoSingleFile
  /\ dualRendererCache = {}
  /\ msgs = SetToBag({Msg("initialLoadMsg")})
  /\ handled = Handled("none", "")
  /\ cmd = "Init"
  /\ quit = FALSE

Init == StartDualPane(Starts)

HandleInitialLoad ==
  /\ Running
  /\ \E s \in {Cur} : \E x \in Pending("initialLoadMsg") :
       \E r \in {UpdateInitialLoad(s)} :
         Commit(r, SetToBag({x}), Handled("initialLoadMsg", ""))

HandleLoadComplete(ios) ==
  /\ Running
  /\ \E s \in {Cur} : \E x \in Pending("loadCompleteMsg") : \E io \in ios :
       \E r \in {UpdateLoadComplete(s, x, io)} :
         Commit(r, SetToBag({x}), Handled("loadCompleteMsg", ""))

HandleExpandTree ==
  /\ Running
  /\ \E s \in {Cur} : \E x \in Pending("expandTreeMsg") :
       \E r \in {UpdateExpandTree(s)} :
         Commit(r, SetToBag({x}), Handled("expandTreeMsg", ""))

HandlePerformExpansion(ios) ==
  /\ Running
  /\ \E s \in {Cur} : \E x \in Pending("performExpansionMsg") : \E io \in ios :
       \E r \in {UpdatePerformExpansion(s, io)} :
         Commit(r, SetToBag({x}), Handled("performExpansionMsg", ""))

\* the sizes the terminal takes
Sizes == {[Width |-> 80, Height |-> 5]}

HandleWindowSize(ios) ==
  /\ Running
  /\ \E s \in {Cur} : \E size \in Sizes : \E io \in ios :
       \E r \in {UpdateWindowSize(s, size, io)} :
         Commit(r, EmptyBag, Handled("WindowSizeMsg", ""))

\* a manual deepen request that would schedule a step is taken only while
\* the depth and the number of scheduled steps are within the bounds
KeyAllowed(key) ==
  /\ key = "e" /\ ~m.isExpanding =>
       m.currentDepth < MaxDepth /\ PendingExpansions < MaxPending
  /\ key \in {"ctrl+d", "ctrl+u"} =>
       /\ m.contentViewport > -MaxOvershoot
       /\ m.contentViewport < Len(m.renderedLines) + MaxOvershoot

\* the pointer events: the wheel over the first and over the last column,
\* and a click
Mice ==
  {[Type |-> "MouseWheelUp", X |-> 0], [Type |-> "MouseWheelDown", X |-> 0],
   [Type |-> "MouseWheelUp", X |-> 79], [Type |-> "MouseWheelDown", X |-> 79],
   [Type |-> "MouseLeft", X |-> 0]}

\* the event and its column, as handled records it
MouseString(msg) == msg.Type \o "@" \o ToString(msg.X)

HandleMouse ==
  /\ Running
  /\ \E s \in {Cur} : \E msg \in Mice :
       \E r \in {UpdateMouse(s, msg)} :
         Commit(r, EmptyBag, Handled("MouseMsg", MouseString(msg)))

HandleKey(key, ios) ==
  /\ Running
  /\ KeyAllowed(key)
  /\ \E s \in {Cur} : \E io \in ios :
       \E r \in {UpdateKey(s, key, io)} :
         Commit(r, EmptyBag, Handled("KeyMsg", key))

\* the keys of the scan and the tree selection: down, up, home, end and the
\* manual deepen request
Keys == {"j", "k", "g", "G", "e"}

Next ==
  \/ HandleInitialLoad
  \/ HandleLoadComplete(IoOk)
  \/ HandleExpandTree
  \/ HandlePerformExpansion(IoOk)
  \/ HandleWindowSize(IoOk)
  \/ \E key \in Keys : HandleKey(key, IoOk)

Spec == Init /\ [][Next]_vars

\* the program without manual deepen requests
NextAuto ==
  \/ HandleInitialLoad
  \/ HandleLoadComplete(IoOk)
  \/ HandleExpandTree
  \/ HandlePerformExpansion(IoOk)
  \/ HandleWindowSize(IoOk)
  \/ \E key \in Keys \ {"e"} : HandleKey(key, IoOk)

\* the event loop handles every message that a command or a tick reports
Delivery ==
  /\ WF_vars(HandleInitialLoad)
  /\ WF_vars(HandleLoadComplete(IoOk))
  /\ WF_vars(HandleExpandTree)
  /\ WF_vars(HandlePerformExpansion(IoOk))

SpecAuto == Init /\ [][NextAuto]_vars /\ Delivery

\* the program in a directory with an unreadable document, under the keys
\* that move the selection and scroll, the wheel and two terminal heights
StartsScroll == {[fs |-> FsView, includeIgnored |-> FALSE]}

InitScroll == StartDualPane(StartsScroll)

KeysScroll == {"tab", "j", "k", "ctrl+d", "ctrl+u", "g", "G", "r"}

SizesScroll == {[Width |-> 80, Height |-> 5], [Width |-> 80, Height |-> 7]}

HandleWindowSizeIn(sizes, ios) ==
  /\ Running
  /\ \E s \in {Cur} : \E size \in sizes : \E io \in ios :
       \E r \in {UpdateWindowSize(s, size, io)} :
         Commit(r, EmptyBag, Handled("WindowSizeMsg", ""))

NextScroll ==
  \/ HandleInitialLoad
  \/ HandleLoadComplete(IoOk)
  \/ HandleExpandTree
  \/ HandlePerformExpansion(IoOk)
  \/ HandleWindowSizeIn(SizesScroll, IoOk)
  \/ HandleMouse
  \/ \E key \in KeysScroll : HandleKey(key, IoOk)

SpecScroll == InitScroll /\ [][NextScroll]_vars

\* the program under the keys that move the split and toggle raw
KeysSplit == {"<", ">", "r"}

SizesSplit == {[Width |-> 80, Height |-> 5]}

NextSplit ==
  \/ HandleInitialLoad
  \/ HandleLoadComplete(IoOk)
  \/ HandleExpandTree
  \/ HandlePerformExpansion(IoOk)
  \/ HandleWindowSizeIn(SizesSplit, IoOk)
  \/ \E key \in KeysSplit : HandleKey(key, IoOk)

SpecSplit == InitScroll /\ [][NextSplit]_vars

\* the scans alone, in every working directory made of candidate entries:
\* the trees the program builds, flattens and collects
StartsTree ==
  {[fs |-> FsOf(S), includeIgnored |-> FALSE] :
     S \in SUBSET (1..Len(CandidateEntries))}

InitTree == StartDualPane(StartsTree)

NextTree ==
  \/ HandleInitialLoad
  \/ HandleLoadComplete(IoOk)
  \/ HandleExpandTree
  \/ HandlePerformExpansion(IoOk)

SpecTree == InitTree /\ [][NextTree]_vars

\* the scans alone, with and without -i, in every working directory made of
\* scan entries under every condition of the .gitignore, and in a working
\* directory that cannot be listed
StartsScan ==
  {[fs |-> FsScan(S, g), includeIgnored |-> i] :
     S \in SUBSET (1..Len(ScanEntries)), g \in IgnoreFiles, i \in BOOLEAN}
  \cup {[fs |-> FsLocked, includeIgnored |-> i] : i \in BOOLEAN}

InitScan == StartDualPane(StartsScan)

SpecScan == InitScan /\ [][NextTree]_vars

\* glamour.NewTermRenderer and TermRenderer.Render may fail
IoAny == IoOutcomes({TRUE, FALSE}, {TRUE, FALSE})

\* the program where scans, reads and the engine may fail: a directory that
\* cannot be listed, one with a document that cannot be read, one with an
\* empty document; under the quit keys, the raw toggle and the selection keys
StartsFail ==
  {[fs |-> FsView, includeIgnored |-> FALSE],
   [fs |-> FsLocked, includeIgnored |-> FALSE],
   [fs |-> FsBlank, includeIgnored |-> FALSE]}

InitFail == StartDualPane(StartsFail)

KeysFail == {"q", "ctrl+c", "r", "j", "k"}

NextFail ==
  \/ HandleInitialLoad
  \/ HandleLoadComplete(IoAny)
  \/ HandleExpandTree
  \/ HandlePerformExpansion(IoAny)
  \/ HandleWindowSizeIn(SizesSplit, IoAny)
  \/ \E key \in KeysFail : HandleKey(key, IoAny)

SpecFail == InitFail /\ [][NextFail]_vars

\* the program under resizes between two terminal sizes, where the engine
\* may fail when a resize asks for it, with the keys that change focus,
\* selection and the raw flag
SizesResize == {[Width |-> 80, Height |-> 5], [Width |-> 100, Height |-> 7]}

KeysResize == {"tab", "j", "r"}

NextResize ==
  \/ HandleInitialLoad
  \/ HandleLoadComplete(IoOk)
  \/ HandleExpandTree
  \/ HandlePerformExpansion(IoOk)
  \/ HandleWindowSizeIn(SizesResize, IoAny)
  \/ \E key \in KeysResize : HandleKey(key, IoOk)

SpecResize == InitScroll /\ [][NextResize]_vars

\* ------------------------------------------------------------------------
\* The program in single-file mode: the event loop around
\* SingleFileModel.Update and the commands running off it
\* ------------------------------------------------------------------------

\* the commands running and the messages not yet handled
InFlight == BagCardinality(sfMsgs) + BagCardinality(creating)

\* the documents main is started on: a readable file, a file that cannot
\* be read, and piped text with and without content
StartsSingle ==
  {[stdin |-> FALSE, filepath |-> PathJoin(RootPath, Name_a),
    content |-> << >>],
   [stdin |-> FALSE, filepath |-> PathJoin(PathJoin(RootPath, Name_d), Name_b),
    content |-> << >>],
   [stdin |-> TRUE, filepath |-> << "s", "t", "d", "i", "n" >>,
    content |-> Text_a],
   [stdin |-> TRUE, filepath |-> << "s", "t", "d", "i", "n" >>,
    content |-> << >>]}

\* main in single-file mode
StartSingleFile(starts) ==
  /\ fs = FsView
  /\ \E start \in starts :
       /\ sf = IF start.stdin
               THEN NewSingleFileModelWithContent(start.filepath,
                                                  start.content)
               ELSE NewSingleFileModel(start.filepath)
       /\ sfMsgs = SetToBag({RunInit(SingleInit(sf), start.filepath, fs)})
  /\ rendererCache = {}
  /\ creating = EmptyBag
  /\ built = [w \in Widths |-> 0]
  /\ m = NewDualPaneModel(FALSE)
  /\ dualRendererCache = {}
  /\ msgs = EmptyBag
  /\ handled = Handled("none", "")
  /\ cmd = "Init"
  /\ quit = FALSE

InitSingle == StartSingleFile(StartsSingle)

\* the event loop takes the result r of Update and starts its command
CommitSingle(r, taken, what, io) ==
  /\ sf' = r.s
  /\ sfMsgs' =
       (sfMsgs (-) taken)
       (+) (IF r.cmd.kind = CmdRenderContent
            THEN SetToBag({renderContentAsync(r.cmd.content, r.cmd.renderer,
                                              r.cmd.raw, io)})
            ELSE EmptyBag)
  /\ creating' =
       creating
       (+) (IF r.cmd.kind = CmdCreateRenderer
            THEN SetToBag({[width |-> r.cmd.width, pc |-> "check"]})
            ELSE EmptyBag)
  /\ handled' = what
  /\ cmd' = r.cmd.kind
  /\ quit' = (r.cmd.kind = CmdQuit)
  /\ UNCHANGED << rendererCache, built, fs, dualVars >>

PendingSingle(type) == {x \in BagToSet(sfMsgs) : x.type = type}

HandleFileLoaded(ios) ==
  /\ Running
  /\ \E s \in {sf} : \E x \in PendingSingle("fileLoadedMsg") : \E io \in ios :
       \E r \in {SingleFileLoaded(s, x)} :
         CommitSingle(r, SetToBag({x}), Handled("fileLoadedMsg", ""), io)

HandleRendererCreated(ios) ==
  /\ Running
  /\ \E s \in {sf} : \E x \in PendingSingle("rendererCreatedMsg") :
       \E io \in ios : \E r \in {SingleRendererCreated(s, x)} :
         CommitSingle(r, SetToBag({x}), Handled("rendererCreatedMsg", ""), io)

HandleContentRendered ==
  /\ Running
  /\ \E s \in {sf} : \E x \in PendingSingle("contentRenderedMsg") :
       \E io \in IoOk : \E r \in {SingleContentRendered(s, x)} :
         CommitSingle(r, SetToBag({x}), Handled("contentRenderedMsg", ""), io)

\* the sizes the terminal takes in single-file mode
SizesSingle == {[Width |-> 80, Height |-> 2], [Width |-> 80, Height |-> 3]}

\* a resize that starts a command is taken only while the number of
\* commands and messages in flight is within the bound
HandleSingleWindowSize ==
  /\ Running
  /\ InFlight < MaxInFlight
  /\ \E s \in {sf} : \E size \in SizesSingle : \E io \in IoOk :
       \E r \in {SingleWindowSize(s, size)} :
         CommitSingle(r, EmptyBag, Handled("WindowSizeMsg", ""), io)

\* the keys of the single-file view
KeysSingle ==
  {"q", "ctrl+c", "esc", "j", "k", "ctrl+d", "ctrl+u", "g", "G", "r", " "}

\* a raw toggle that starts a command is taken only while the number in
\* flight is within the bound, a page down only while the viewport is less
\* than MaxOvershoot lines before the first line
HandleSingleKey(key, ios) ==
  /\ Running
  /\ key = "r" => InFlight < MaxInFlight
  /\ key = " " => sf.viewport > -MaxOvershoot
  /\ \E s \in {sf} : \E io \in IF key = "r" THEN ios ELSE IoOk :
       \E r \in {SingleKey(s, key)} :
         CommitSingle(r, EmptyBag, Handled("KeyMsg", key), io)

\* the wheel over the view
MiceSingle == {[Type |-> "MouseWheelDown", X |-> 0]}

HandleSingleMouse ==
  /\ Running
  /\ \E s \in {sf} : \E msg \in MiceSingle : \E io \in IoOk :
       \E r \in {SingleOther(s)} :
         CommitSingle(r, EmptyBag, Handled("MouseMsg", MouseString(msg)), io)

\* createRendererInBackground, lines 103-108: the look into the cache under
\* the read lock
CreateRendererCheck ==
  /\ Running
  /\ \E p \in BagToSet(creating) :
       /\ p.pc = "check"
       /\ LET hit == {e \in rendererCache : e.width = p.width}
          IN IF hit # {}
             THEN /\ creating' = creating (-) SetToBag({p})
                  /\ sfMsgs' =
                       sfMsgs
                       (+) SetToBag({SingleMsg("rendererCreatedMsg", << >>,
                                               << >>,
                                               CHOOSE e \in hit : TRUE,
                                               FALSE)})
             ELSE /\ creating' =
                       (creating (-) SetToBag({p}))
                       (+) SetToBag({[p EXCEPT !.pc = "build"]})
                  /\ sfMsgs' = sfMsgs
  /\ UNCHANGED << sf, rendererCache, built, fs, dualVars, handled, cmd, quit >>

\* createRendererInBackground, lines 111-123: the construction of the engine
\* and its insertion under the write lock
CreateRendererBuild(ios) ==
  /\ Running
  /\ \E p \in BagToSet(creating) : \E io \in ios :
       /\ p.pc = "build"
       /\ creating' = creating (-) SetToBag({p})
       /\ IF io.createOk
          THEN LET r == Renderer(p.width, built[p.width] + 1)
               IN /\ built' = [built EXCEPT ![p.width] = @ + 1]
                  /\ rendererCache' =
                       {e \in rendererCache : e.width # p.width} \cup {r}
                  /\ sfMsgs' =
                       sfMsgs
                       (+) SetToBag({SingleMsg("rendererCreatedMsg", << >>,
                                               << >>, r, FALSE)})
          ELSE /\ UNCHANGED << built, rendererCache >>
               /\ sfMsgs' =
                    sfMsgs
                    (+) SetToBag({SingleMsg("rendererCreatedMsg", << >>,
                                            << >>, NilRenderer, TRUE)})
  /\ UNCHANGED << sf, fs, dualVars, handled, cmd, quit >>

\* TermRenderer.Render may fail
IoRender == IoOutcomes({TRUE}, {TRUE, FALSE})

\* glamour.NewTermRenderer may fail
IoCreate == IoOutcomes({TRUE, FALSE}, {TRUE})

NextSingle ==
  \/ HandleFileLoaded(IoRender)
  \/ HandleRendererCreated(IoRender)
  \/ HandleContentRendered
  \/ HandleSingleWindowSize
  \/ \E key \in KeysSingle : HandleSingleKey(key, IoRender)
  \/ HandleSingleMouse
  \/ CreateRendererCheck
  \/ CreateRendererBuild(IoCreate)

SpecSingle == InitSingle /\ [][NextSingle]_vars


\* ------------------------------------------------------------------------
\* Properties of the scan state machine
\* ------------------------------------------------------------------------

\* the depth-0 scans running off the event loop (their loadCompleteMsg is
\* still to be handled)
QuickScansInFlight(bag) ==
  LET running == {x \in BagToSet(bag) : x.type = "loadCompleteMsg"}
      n[S \in SUBSET running] ==
        IF S = {} THEN 0
        ELSE LET x == CHOOSE y \in S : TRUE
             IN CopiesIn(x, bag) + n[S \ {x}]
  IN n[running]

\* this step handles a performExpansionMsg
PerformStep == handled' = Handled("performExpansionMsg", "")

\* this step handles a performExpansionMsg and runs a deepening scan
DeepeningStep == PerformStep /\ m'.currentDepth # m.currentDepth

\* the tree and the documents a deepening scan at depth d finds
ScanAt(d) == FindMarkdownFilesWithDepth(fs, m.includeIgnored, d)

\* C1: at most one directory scan is in progress at any time: at most one
\* depth-0 scan is in flight and isExpanding is true while it is, no deepening
\* scan runs while it is in flight, and a performExpansionMsg handled while
\* isExpanding is true changes no field, returns no command and starts no scan.
C1_AtMostOneScan ==
  [][/\ QuickScansInFlight(msgs') <= 1
     /\ (QuickScansInFlight(msgs') = 1 => m'.isExpanding)
     /\ (QuickScansInFlight(msgs) >= 1 => ~DeepeningStep)
     /\ (PerformStep /\ m.isExpanding =>
           /\ m' = m
           /\ dualRendererCache' = dualRendererCache
           /\ cmd' = CmdNil
           /\ QuickScansInFlight(msgs') = QuickScansInFlight(msgs)
           /\ msgs' = msgs (-) SetToBag({Msg("performExpansionMsg")}))]_vars

\* a performExpansionMsg has been handled while the depth-0 scan was in flight
C1_Witness ==
  /\ handled = Handled("performExpansionMsg", "")
  /\ m.isExpanding
  /\ QuickScansInFlight(msgs) = 1

\* C2: a deepening scan runs off the event loop: the step that starts it
\* leaves it in flight (isExpanding true) and does not itself apply its
\* result, which arrives as a separate message.
C2_ScanOffEventLoop ==
  [][DeepeningStep =>
       /\ m'.isExpanding
       /\ m'.fileTree = m.fileTree
       /\ m'.allFiles = m.allFiles
       /\ m'.treeLines = m.treeLines]_vars

\* the automatic cadence has come to rest at the ceiling
Settled ==
  /\ m.currentDepth = DepthCeiling
  /\ ~m.isExpanding
  /\ PendingExpansions = 0

\* C3: without manual deepen requests the cadence is self-terminating: at
\* most one deepening message is scheduled at a time, every deepening step
\* raises currentDepth by one up to 5, a step reschedules (whatever it found)
\* exactly while currentDepth < 5, after the step to 5 nothing is scheduled,
\* and under fair delivery the run ends up at currentDepth = 5 with
\* isExpanding false and no pending expansion message.
C3_CadenceTerminates ==
  /\ [][/\ PendingExpansions' <= 1
        /\ m'.currentDepth <= DepthCeiling
        /\ (PerformStep =>
              /\ m'.currentDepth = m.currentDepth + 1
              /\ m'.currentDepth >= 1
              /\ IF m'.currentDepth < DepthCeiling
                 THEN cmd' = CmdTickPerform /\ PendingExpansions' = 1
                 ELSE cmd' = CmdNil /\ PendingExpansions' = 0)]_vars
  /\ <>[]Settled

\* the step to depth 5 has been handled and has scheduled nothing
C3_Witness ==
  /\ handled = Handled("performExpansionMsg", "")
  /\ cmd = CmdNil
  /\ Settled

\* C4: a deepening step replaces the tree only when its scan finds strictly
\* more documents than are known; a step that finds no more leaves fileTree,
\* allFiles, treeLines, selectedIndex and treeSelectedIdx unchanged, and
\* currentDepth still advances by one.
C4_ReplaceOnlyOnMore ==
  [][PerformStep /\ ~m.isExpanding =>
       LET found == CollectFiles(ScanAt(m.currentDepth + 1))
       IN /\ m'.currentDepth = m.currentDepth + 1
          /\ m'.selectedIndex = m.selectedIndex
          /\ IF Len(found) > Len(m.allFiles)
             THEN /\ m'.fileTree = ScanAt(m.currentDepth + 1)
                  /\ m'.allFiles = found
             ELSE /\ m'.fileTree = m.fileTree
                  /\ m'.allFiles = m.allFiles
                  /\ m'.treeLines = m.treeLines
                  /\ m'.treeSelectedIdx = m.treeSelectedIdx]_vars

\* the step to depth 2 found a new directory and no new document: the tree
\* of depth 1 is still shown
C4_Witness ==
  /\ handled = Handled("performExpansionMsg", "")
  /\ fs = FsDeep
  /\ m.currentDepth = 2
  /\ m.fileTree = ScanAt(1)
  /\ m.fileTree # ScanAt(2)

\* the content pane after loading the document at path
LoadedContent(path) ==
  LET r == ReadFile(fs, path)
  IN IF r.err THEN LoadErrorText(path) ELSE r.content

\* C5: handling the depth-0 scan result replaces fileTree, allFiles and
\* treeLines by the scanned tree and its derivations, clears isExpanding,
\* selects and loads the first document if there is one, and schedules
\* exactly one first deepening step (one expandTreeMsg).
C5_LoadComplete ==
  [][handled' = Handled("loadCompleteMsg", "") =>
       \E x \in Pending("loadCompleteMsg") :
         /\ m'.fileTree = x.tree
         /\ m'.allFiles = CollectFiles(x.tree)
         /\ m'.treeLines = FlattenTree(x.tree, << >>, FALSE)
         /\ ~m'.isExpanding
         /\ (Len(m'.allFiles) > 0 =>
               /\ m'.selectedIndex = 0
               /\ m'.currentContent = LoadedContent(m'.allFiles[1]))
         /\ cmd' = CmdTickExpand
         /\ msgs' = (msgs (-) SetToBag({x}))
                    (+) SetToBag({Msg("expandTreeMsg")})]_vars

\* the scan result has been handled after the user had moved the selection
\* off the empty list; the first document is selected and shown
C5_Witness ==
  /\ handled = Handled("loadCompleteMsg", "")
  /\ Len(m.allFiles) > 0
  /\ m.selectedIndex = 0
  /\ m.currentContent = Text_a
  /\ CopiesIn(Msg("expandTreeMsg"), msgs) = 1

C7_SettledAsStated ==
  [][DeepeningStep =>
       (cmd' = CmdNil <=>
          \/ m'.currentDepth > DepthCeiling
          \/ m'.allFiles = m.allFiles)]_vars

\* C7 amended: after a deepening step nothing more is scheduled exactly when
\* currentDepth has reached 5; a scan that yields no additional documents
\* does not end the cadence.
C7_SettledAtCeiling ==
  [][DeepeningStep => (cmd' = CmdNil <=> m'.currentDepth >= DepthCeiling)]_vars

\* a step that found no additional documents has scheduled the next one
C7_Witness ==
  /\ handled = Handled("performExpansionMsg", "")
  /\ cmd = CmdTickPerform
  /\ fs = FsFlat
  /\ m.currentDepth = 2
  /\ Len(m.allFiles) = Len(CollectFiles(ScanAt(0)))

\* C8: currentDepth starts at -1 and every change of it is an increase by
\* exactly one.
C8_DepthMonotonic ==
  /\ m.currentDepth = -1
  /\ [][\/ m'.currentDepth = m.currentDepth
        \/ m'.currentDepth = m.currentDepth + 1]_vars

\* manual requests have taken the depth beyond the ceiling
C8_Witness == m.currentDepth > DepthCeiling + 1

\* a scanned tree has been applied
Loaded == m.fileTree # emptyTree

\* C9: once a scanned tree has been applied, allFiles, treeLines and
\* treeSelectedIdx are what the tree and the selection derive.
C9_DerivedState ==
  Loaded =>
    /\ m.allFiles = CollectFiles(m.fileTree)
    /\ m.treeLines = FlattenTree(m.fileTree, << >>, FALSE)
    /\ m.treeSelectedIdx =
         findTreeLineForFile(m.selectedIndex, m.treeLines, m.allFiles)

\* a deepening step has replaced the tree after the selection had moved
C9_Witness ==
  /\ handled = Handled("performExpansionMsg", "")
  /\ fs = FsDeep
  /\ Len(m.allFiles) = 3
  /\ m.selectedIndex = 1
  /\ m.treeSelectedIdx = 4

\* C10: selectedIndex is never negative and, whenever allFiles is non-empty,
\* an index into it.
C10_SelectedIndexValid ==
  /\ m.selectedIndex >= 0
  /\ (Len(m.allFiles) > 0 => m.selectedIndex <= Len(m.allFiles) - 1)

\* ------------------------------------------------------------------------
\* Properties of the selection and the viewports
\* ------------------------------------------------------------------------

\* this step handles one of the keys that move the selection
MoveKeyStep == handled' \in {Handled("KeyMsg", k) : k \in {"j", "k", "g", "G"}}

\* this step changes the selection with the tree pane focused
TreeMove ==
  /\ MoveKeyStep
  /\ m.focusedPane = 0
  /\ m'.selectedIndex # m.selectedIndex

\* the visible height of the panes
VisibleHeight(s) == s.height - 2

\* C11: every tree-focused change of the selection to a document loads that
\* document and leaves the content viewport at 0; when the read fails the
\* content lines are the error text as the only line, the viewport 0 as well.
C11_MoveLoadsAndResets ==
  [][TreeMove /\ m'.selectedIndex >= 0 /\ m'.selectedIndex < Len(m'.allFiles) =>
       LET path == m'.allFiles[m'.selectedIndex + 1]
       IN /\ m'.currentContent = LoadedContent(path)
          /\ m'.contentViewport = 0
          /\ (ReadFile(fs, path).err =>
                m'.renderedLines = << LoadErrorText(path) >>)]_vars

\* C12: after every tree-focused change of the selection with a positive
\* visible height H the selected line is inside the window, treeViewport <=
\* treeSelectedIdx < treeViewport + H; a line that was above becomes the
\* top, for a line that was below the top becomes treeSelectedIdx - H + 1.
C12_SelectedLineVisible ==
  [][TreeMove /\ VisibleHeight(m') > 0 =>
       /\ m'.treeViewport <= m'.treeSelectedIdx
       /\ m'.treeSelectedIdx < m'.treeViewport + VisibleHeight(m')
       /\ (m'.treeSelectedIdx < m.treeViewport =>
             m'.treeViewport = m'.treeSelectedIdx)
       /\ (m'.treeSelectedIdx >= m.treeViewport + VisibleHeight(m') =>
             m'.treeViewport = m'.treeSelectedIdx - VisibleHeight(m') + 1)]_vars

\* the offsets a viewport over n lines may take
InRange(viewport, n, h) == viewport >= 0 /\ viewport <= Max(0, n - h)

\* C13: in every reachable state treeViewport lies in
\* [0, max(0, len(treeLines) - H)] and contentViewport in
\* [0, max(0, len(renderedLines) - H)], H = height - 2.
C13_ViewportsInRange ==
  /\ InRange(m.treeViewport, Len(m.treeLines), VisibleHeight(m))
  /\ InRange(m.contentViewport, Len(m.renderedLines), VisibleHeight(m))

\* the keys that scroll
ScrollKeys == {"j", "k", "ctrl+d", "ctrl+u", "g", "G", " "}

\* the offset a scroll operation asks for from offset v, with L lines and
\* the visible height H: a line, half a page, a page, the top, the bottom
RequestedOffset(op, v, L, H) ==
  CASE op \in {"j", "MouseWheelDown"} -> v + 1
    [] op \in {"k", "MouseWheelUp"} -> v - 1
    [] op = "ctrl+d" -> v + GoDiv(H, 2)
    [] op = "ctrl+u" -> v - GoDiv(H, 2)
    [] op = "g" -> 0
    [] op = "G" -> L - H
    [] op = " " -> v + H - 1

\* the viewport clamp: max(0, min(o, max(0, L - H)))
Clamp(o, L, H) == Max(0, Min(o, Max(0, L - H)))

\* C14: every scroll operation leaves the viewport at
\* max(0, min(o, max(0, L - H))) for the requested offset o, L lines and
\* the visible height H, whatever L, H and the starting offset are: the
\* scroll keys of the single-file view (H = height), the scroll keys of the
\* dual-pane view with the content pane focused and the wheel over the
\* content pane (H = height - 2).
C14_ScrollClamps ==
  [][/\ \A key \in ScrollKeys :
         SingleMode /\ handled' = Handled("KeyMsg", key) =>
           sf'.viewport =
             Clamp(RequestedOffset(key, sf.viewport, Len(sf.lines),
                                   sf.height),
                   Len(sf.lines), sf.height)
     /\ \A key \in ScrollKeys \ {" "} :
         /\ ~SingleMode
         /\ handled' = Handled("KeyMsg", key)
         /\ m.focusedPane = 1
         => m'.contentViewport =
              Clamp(RequestedOffset(key, m.contentViewport,
                                    Len(m.renderedLines), VisibleHeight(m)),
                    Len(m.renderedLines), VisibleHeight(m))
     /\ \A msg \in Mice :
         /\ ~SingleMode
         /\ handled' = Handled("MouseMsg", MouseString(msg))
         /\ msg.Type \in {"MouseWheelUp", "MouseWheelDown"}
         /\ msg.X >= TreeWidth(m.width, m.splitRatio)
         => m'.contentViewport =
              Clamp(RequestedOffset(msg.Type, m.contentViewport,
                                    Len(m.renderedLines), VisibleHeight(m)),
                    Len(m.renderedLines), VisibleHeight(m))]_vars

\* the wrap width of the content pane: max(40, int(width*(1-splitRatio)) - 6)
WrapWidth(width, splitRatio) ==
  Max(MinWrapWidth, ContentWidth(width, splitRatio) - 6)

\* the text shown at wrap width w: the lines as they are when raw, the
\* engine's output otherwise
ShownAt(text, raw, w) ==
  IF raw THEN Split(text, "\n") ELSE Split(GlamourRender(text, w), "\n")

\* this step changes the split ratio or handles a resize
LayoutStep ==
  handled' \in {Handled("KeyMsg", "<"), Handled("KeyMsg", ">"),
                Handled("WindowSizeMsg", "")}

\* C15: after every split-ratio change and every resize, renderedLines is
\* the current document rendered at the new wrap width
\* max(40, int(width*(1-splitRatio)) - 6) under the current raw flag, also
\* when the engine for that width is already in the cache.
C15_RerenderedAtNewWidth ==
  [][LayoutStep =>
       m'.renderedLines =
         ShownAt(m'.currentContent, m'.raw,
                 WrapWidth(m'.width, m'.splitRatio))]_vars

\* this step handles the raw/rendered toggle of the dual-pane view
ToggleStep == ~SingleMode /\ handled' = Handled("KeyMsg", "r")

\* C16: the raw/rendered toggle of the dual-pane view flips the raw flag
\* and re-renders the current content in the same step: right after it,
\* renderedLines is the content split on line breaks when raw is true, and
\* the engine's output split on line breaks when raw is false and there is
\* an engine; as the flag is flipped by every toggle, two toggles restore it.
C16_ToggleRerenders ==
  [][ToggleStep =>
       /\ m'.raw = ~m.raw
       /\ m'.currentContent = m.currentContent
       /\ m'.raw => m'.renderedLines = Split(m'.currentContent, "\n")
       /\ ~m'.raw /\ m'.renderer # NoRenderer =>
            m'.renderedLines =
              Split(GlamourRender(m'.currentContent, m'.renderer), "\n")]_vars

\* a document of two lines is shown rendered again after the second toggle
C16_Witness ==
  /\ handled = Handled("KeyMsg", "r")
  /\ ~m.raw
  /\ m.renderer # NoRenderer
  /\ m.currentContent = Text_a
  /\ m.renderedLines = Split(GlamourRender(Text_a, m.renderer), "\n")
  /\ m.renderedLines # Split(Text_a, "\n")

\* this step of the dual-pane view renders the current content with the
\* outcomes io of the engine calls: the raw toggle, or a selection move
\* onto a document that could be read
DualRenderStep(io) ==
  \/ HandleKey("r", {io})
  \/ /\ HandleKey("j", {io}) \/ HandleKey("k", {io})
     /\ m'.selectedIndex # m.selectedIndex
     /\ ~ReadFile(fs, m'.allFiles[m'.selectedIndex + 1]).err

\* the dual-pane view falls back to the text as it is
DualRenderFallback ==
  \A io \in IoAny :
    /\ DualRenderStep(io)
    /\ \/ m'.raw
       \/ m'.renderer = NoRenderer
       \/ m'.currentContent = << >>
       \/ ~io.renderOk
    => /\ m'.renderedLines = Split(m'.currentContent, "\n")
       /\ ~quit'

\* the results of the render commands this step has started
SentSingle ==
  {y \in BagToSet(sfMsgs') : /\ y.type = "contentRenderedMsg"
                             /\ CopiesIn(y, sfMsgs') > CopiesIn(y, sfMsgs)}

\* the messages this step has taken
TakenSingle ==
  {x \in BagToSet(sfMsgs) : CopiesIn(x, sfMsgs) > CopiesIn(x, sfMsgs')}

\* the single-file view falls back to the text as it is: in the result of
\* the render command a step starts, and when a failed render is handled
SingleRenderFallback ==
  /\ SingleMode =>
       \A y \in SentSingle :
         \/ sf'.raw
         \/ sf'.renderer = NilRenderer
         \/ sf'.content = << >>
         \/ y.err
         => y.lines = Split(sf'.content, "\n")
  /\ SingleMode /\ handled' = Handled("contentRenderedMsg", "") =>
       /\ \A x \in TakenSingle :
            sf'.lines = IF x.err THEN Split(sf'.content, "\n") ELSE x.lines
       /\ ~quit'

\* C17: rendering never surfaces an error: the result is the text split on
\* line breaks as it is whenever raw mode is set, no engine is available,
\* the text is empty or the engine's render call fails, in the dual-pane
\* view and in the single-file view, and the controller goes on.
C17_RenderFallsBack == [][DualRenderFallback /\ SingleRenderFallback]_vars

\* C18: for each wrap width an engine is constructed and inserted into the
\* renderer cache at most once, also when several renderer-creation
\* commands for the width run at the same time; no entry of a cache is ever
\* removed or replaced, and a command started for a width that is in the
\* cache reports the cached engine.
C18_OnceForAWidth ==
  [][/\ \A w \in Widths : built'[w] <= 1
     /\ rendererCache \subseteq rendererCache'
     /\ dualRendererCache \subseteq dualRendererCache'
     /\ \A y \in BagToSet(sfMsgs') :
          /\ y.type = "rendererCreatedMsg"
          /\ CopiesIn(y, sfMsgs') > CopiesIn(y, sfMsgs)
          /\ ~y.err
          => y.renderer \in rendererCache']_vars

\* the keys that quit
QuitKeys == IF SingleMode THEN {"q", "ctrl+c", "esc"} ELSE {"q", "ctrl+c"}

\* C19: only an explicit quit command ends the session: Update returns
\* tea.Quit only for a quit key (q, ctrl+c; esc too in the single-file
\* view), and no failed scan, read or render and no other message makes the
\* controller quit or brings it into a state in which it stops handling
\* messages.
C19_OnlyQuitKeysEnd ==
  [][/\ cmd' = CmdQuit => handled' \in {Handled("KeyMsg", k) : k \in QuitKeys}
     /\ quit' => cmd' = CmdQuit
     /\ ~ViewPanics']_vars

\* ------------------------------------------------------------------------
\* Properties of the tree functions
\* ------------------------------------------------------------------------

\* where the marker of a display line starts: the first "[" (the glyphs
\* before it hold none), 0 when the line has no marker
MarkAt(line) ==
  LET at == {k \in 1..Len(line) : line[k] = "["}
  IN IF at = {} THEN 0 ELSE CHOOSE k \in at : \A j \in at : k <= j

\* the line is marked as a document: "[-] " after the connector
IsDocumentLine(line) ==
  /\ MarkAt(line) > 0
  /\ SubSeq(line, MarkAt(line), MarkAt(line) + 3) = << "[", "-", "]", " " >>

\* the name a display line shows and the level it is nested at
ShownName(line) == SubSeq(line, MarkAt(line) + 4, Len(line))

ShownLevel(line) == (MarkAt(line) - 5) \div 4

\* the i-th document-marked line shows the i-th path: its name at its level
SameOrder(files, lines) ==
  LET docs == SelectSeq(lines, IsDocumentLine)
  IN /\ Len(docs) = Len(files)
     /\ \A i \in 1..Len(files) :
          /\ ShownName(docs[i]) = PathBase(files[i])
          /\ ShownLevel(docs[i])
               = Len(Split(PathRel(RootPath, files[i]), "/"))

\* C20: for every tree the file index and the display lines are in the
\* same order: the document at position i of CollectFiles(tree) is the one
\* shown by the i-th document-marked line of FlattenTree(tree).
C20_SameOrder ==
  SameOrder(CollectFiles(m.fileTree), FlattenTree(m.fileTree, << >>, FALSE))

\* a tree with documents at three levels, a directory's documents listed
\* before the documents next to it
C20_Witness ==
  LET files == CollectFiles(m.fileTree)
  IN /\ Len(files) = 5
     /\ files[1] = PathJoin(PathJoin(RootPath, Name_d), Name_a)
     /\ files[3] = PathJoin(PathJoin(PathJoin(RootPath, Name_e), Name_f),
                            Name_c)
     /\ files[5] = PathJoin(RootPath, Name_b)
     /\ m.allFiles = files
     /\ m.treeLines = FlattenTree(m.fileTree, << >>, FALSE)

\* the nodes below node, in the order a depth-first walk meets them
RECURSIVE NodesBelow(_)
NodesBelow(node) ==
  LET n == Len(node.Children)
      acc[i \in 0..n] ==
        IF i = 0 THEN << >>
        ELSE acc[i - 1] \o << node.Children[i] >>
             \o NodesBelow(node.Children[i])
  IN acc[n]

NodeCount(node) == 1 + Len(NodesBelow(node))

\* the trees a scan has returned: the one a finished quick scan reports and
\* the one the model holds
ScanTrees ==
  {m.fileTree} \cup {x.tree : x \in Pending("loadCompleteMsg")}

\* the marker of a display line with the blank after it
MarkOf(line) == SubSeq(line, MarkAt(line), MarkAt(line) + 3)

\* the line shows the node: a directory as "[+] name/", a document as
\* "[-] name"
LineShows(line, node) ==
  /\ MarkAt(line) > 0
  /\ IF node.IsDir
     THEN /\ MarkOf(line) = << "[", "+", "]", " " >>
          /\ ShownName(line) = node.Name \o << "/" >>
     ELSE /\ MarkOf(line) = << "[", "-", "]", " " >>
          /\ ShownName(line) = node.Name

OneLinePerNode(tree) ==
  LET below == NodesBelow(tree)
      docs == SelectSeq(below, LAMBDA n : ~n.IsDir)
      lines == FlattenTree(tree, << >>, FALSE)
      files == CollectFiles(tree)
  IN /\ Len(lines) = NodeCount(tree) - 1
     /\ \A i \in 1..Len(lines) : LineShows(lines[i], below[i])
     /\ Len(files) = Len(docs)
     /\ \A i \in 1..Len(files) : files[i] = docs[i].Path

\* C21: for every tree FlattenTree returns exactly one line per node other
\* than the root (as many lines as nodes less one, a directory marked "[+]"
\* with a trailing "/", a document marked "[-]") and CollectFiles returns
\* exactly one path per node that is no directory.
C21_OneLinePerNode == \A tree \in ScanTrees : OneLinePerNode(tree)

\* a tree of three levels with directories and documents, an empty
\* directory among them, flattened and collected into the model
C21_Witness ==
  LET below == NodesBelow(m.fileTree)
  IN /\ Len(below) >= 7
     /\ \E i \in 1..Len(below) :
          below[i].IsDir /\ Len(below[i].Children) = 0
     /\ \E i \in 1..Len(below) :
          /\ below[i].IsDir
          /\ \E k \in 1..Len(below[i].Children) :
               /\ below[i].Children[k].IsDir
               /\ Len(below[i].Children[k].Children) > 0
     /\ m.treeLines = FlattenTree(m.fileTree, << >>, FALSE)
     /\ m.allFiles = CollectFiles(m.fileTree)

\* the first display line that is marked as a document and shows the base
\* name of document i, as a 0-based index; 0 when i is no valid index or no
\* line shows that name
LineOfDocument(i, treeLines, allFiles) ==
  IF i < 0 \/ i >= Len(allFiles) THEN 0
  ELSE LET hits == {k \in 1..Len(treeLines) :
                      /\ IsDocumentLine(treeLines[k])
                      /\ ShownName(treeLines[k]) = PathBase(allFiles[i + 1])}
       IN IF hits = {} THEN 0
          ELSE (CHOOSE k \in hits : \A j \in hits : k <= j) - 1

\* C22: for every tree and every valid document index i,
\* findTreeLineForFile returns the index of the display line that is
\* document-marked and whose trailing filename component equals the base
\* name of allFiles[i]; for an index outside [0, len(allFiles)-1], or when
\* no line matches, it returns 0.
C22_LineOfDocument ==
  \A i \in -1..Len(m.allFiles) :
    findTreeLineForFile(i, m.treeLines, m.allFiles)
      = LineOfDocument(i, m.treeLines, m.allFiles)

\* the trees of the scans of the working directory: the quick scan, the
\* scan to the given depth and the unbounded scan
ScansAt(fsys, includeIgnored, depth) ==
  {FindMarkdownFilesQuick(fsys, includeIgnored),
   FindMarkdownFilesWithDepth(fsys, includeIgnored, depth),
   FindMarkdownFiles(fsys, includeIgnored)}

\* the trees scans return once the program has begun to scan, whether the
\* model takes them or not
ScansDone ==
  ScanTrees
  \cup (IF m.currentDepth >= 0
        THEN ScansAt(fs, m.includeIgnored, m.currentDepth)
        ELSE {})

\* the children of node: directories before documents, either group in
\* non-decreasing case-insensitive order of names
ChildrenSorted(node) ==
  \A i, j \in 1..Len(node.Children) :
    i < j =>
      LET a == node.Children[i]
          b == node.Children[j]
      IN /\ a.IsDir \/ ~b.IsDir
         /\ a.IsDir = b.IsDir => ~StrLess(ToLower(b.Name), ToLower(a.Name))

SortedAtEveryLevel(tree) ==
  /\ ChildrenSorted(tree)
  /\ \A i \in 1..Len(NodesBelow(tree)) : ChildrenSorted(NodesBelow(tree)[i])

\* C23: after any scan (quick, depth-bounded or unbounded), at every level
\* of the returned tree all directory children precede all non-directory
\* children, and within each group names are in non-decreasing
\* case-insensitive order.
C23_SortedAtEveryLevel == \A tree \in ScansDone : SortedAtEveryLevel(tree)

\* the model holds a scanned tree that the walk met in another order: in
\* the root a.md before B.md, in d the directory e before ba.md
C23_Witness ==
  LET kids == m.fileTree.Children
  IN /\ m.currentDepth >= 1
     /\ m.fileTree \in ScansAt(fs, m.includeIgnored, m.currentDepth)
     /\ \E i \in 1..Len(kids) :
          /\ i < Len(kids)
          /\ kids[i].Name = Name_a
          /\ kids[i + 1].Name = Name_B
     /\ \E i \in 1..Len(kids) :
          /\ kids[i].Name = Name_d
          /\ Len(kids[i].Children) = 2
          /\ kids[i].Children[1].Name = Name_e
          /\ kids[i].Children[2].Name = Name_ba

\* no node below the root of the tree has a name that begins with "."
NoHiddenNode(tree) ==
  \A i \in 1..Len(NodesBelow(tree)) :
    ~HasPrefix(NodesBelow(tree)[i].Name, << "." >>)

\* C24: no node of a tree returned by any scan (quick, depth-bounded or
\* unbounded) has a name beginning with ".": hidden files as well as hidden
\* directories are excluded at every level, whatever the includeIgnored
\* setting; only the root path itself is exempt.
C24_NoHiddenNode == \A tree \in ScansDone : NoHiddenNode(tree)

\* the documents of a directory tree on disk as relative paths: the files
\* named *.md that lie at most maxDepth levels below the root (at any level
\* when maxDepth is negative) in directories that can be listed, neither
\* they nor a directory above them hidden
RECURSIVE FsDocuments(_, _, _, _)
FsDocuments(entries, dirRel, level, maxDepth) ==
  UNION {LET e == entries[k]
             rel == IF dirRel = << >> THEN e.name
                    ELSE PathJoin(dirRel, e.name)
         IN IF HasPrefix(e.name, << "." >>) THEN {}
            ELSE IF ~e.isDir
            THEN (IF IsMarkdown(e.name) THEN {rel} ELSE {})
            ELSE IF e.readable /\ (maxDepth < 0 \/ level < maxDepth)
            THEN FsDocuments(e.kids, rel, level + 1, maxDepth)
            ELSE {}
         : k \in 1..Len(entries)}

\* the loaded .gitignore matches the relative path or a directory above it
Matched(fsys, rel) ==
  /\ fsys.ignoreFile = "ok"
  /\ \E q \in fsys.ignored : rel = q \/ HasPrefix(rel, q \o << "/" >>)

\* the documents of a tree as paths relative to the root
DocsOf(tree) ==
  LET files == CollectFiles(tree)
  IN {PathRel(RootPath, files[i]) : i \in 1..Len(files)}

\* the non-inclusive and the inclusive scan of the same kind, with the
\* depth they reach: quick, to the given depth, unbounded
ScanPairs(fsys, depth) ==
  {[non |-> FindMarkdownFilesQuick(fsys, FALSE),
    inc |-> FindMarkdownFilesQuick(fsys, TRUE), depth |-> 0],
   [non |-> FindMarkdownFilesWithDepth(fsys, FALSE, depth),
    inc |-> FindMarkdownFilesWithDepth(fsys, TRUE, depth), depth |-> depth],
   [non |-> FindMarkdownFiles(fsys, FALSE),
    inc |-> FindMarkdownFiles(fsys, TRUE), depth |-> -1]}

\* the pairs of scans at the depth the program has reached
PairsDone ==
  IF m.currentDepth >= 0 THEN ScanPairs(fs, m.currentDepth) ELSE {}

InclusiveFindsMore(fsys, pair) ==
  /\ \A rel \in FsDocuments(fsys.entries, << >>, 0, pair.depth) :
       Matched(fsys, rel) =>
         rel \notin DocsOf(pair.non) /\ rel \in DocsOf(pair.inc)
  /\ DocsOf(pair.non) \subseteq DocsOf(pair.inc)
  /\ Len(CollectFiles(pair.non)) <= Len(CollectFiles(pair.inc))

\* C25: for any filesystem and ignore-file, a document matched by the
\* ignore-file is absent from the non-inclusive scan and present in the
\* inclusive scan of the same root and depth, and every document found by
\* the non-inclusive scan is also found by the inclusive scan.
C25_InclusiveFindsMore ==
  \A pair \in PairsDone : InclusiveFindsMore(fs, pair)

\* the program runs without -i and has scanned two levels deep: it holds the
\* tree of the non-inclusive scan, which lacks the matched documents a.md
\* and d/e/b.md that the inclusive scan of that depth finds
C25_Witness ==
  /\ ~m.includeIgnored
  /\ m.currentDepth >= 2
  /\ m.fileTree = FindMarkdownFilesWithDepth(fs, FALSE, m.currentDepth)
  /\ \A rel \in {Name_a, PathJoin(PathJoin(Name_d, Name_e), Name_b)} :
       /\ Matched(fs, rel)
       /\ rel \in FsDocuments(fs.entries, << >>, 0, m.currentDepth)
       /\ rel \notin DocsOf(m.fileTree)
       /\ rel \in DocsOf(FindMarkdownFilesWithDepth(fs, TRUE, m.currentDepth))
  /\ PathJoin(Name_d, Name_ba) \in DocsOf(m.fileTree)

\* C26: ignore handling fails open: when the ignore-file at the root is
\* missing or cannot be loaded, a non-inclusive scan (quick or depth-bounded)
\* does not abort and returns the same tree as the inclusive scan of the
\* same root and depth, with a nil error.
C26_IgnoreFailsOpen ==
  fs.ignoreFile # "ok" =>
    /\ \A pair \in PairsDone : pair.non = pair.inc
    /\ \A x \in Pending("loadCompleteMsg") :
         ~x.err /\ x.tree = FindMarkdownFilesQuick(fs, TRUE)
    /\ m.fileTree \in
         {emptyTree, FindMarkdownFilesQuick(fs, TRUE)}
         \cup {FindMarkdownFilesWithDepth(fs, TRUE, d) : d \in 1..m.currentDepth}

\* the program runs without -i where the .gitignore is present and cannot be
\* loaded: it has scanned two levels deep and holds the tree of the
\* inclusive scan, with the documents the patterns name
C26_Witness ==
  /\ ~m.includeIgnored
  /\ fs.ignoreFile = "unreadable"
  /\ m.currentDepth >= 2
  /\ m.fileTree = FindMarkdownFilesWithDepth(fs, TRUE, m.currentDepth)
  /\ {Name_a, PathJoin(PathJoin(Name_d, Name_e), Name_b)}
       \subseteq DocsOf(m.fileTree)
  /\ ~m.isExpanding
  /\ Len(m.allFiles) >= 3

\* the root node of a scan without children
BareRoot == FileNode(PathBase(RootPath), RootPath, TRUE, << >>)

\* the scans the program runs with its -i setting, with their depth: the
\* quick scan and the scan to the depth reached
OwnScans ==
  IF m.currentDepth < 0 THEN {}
  ELSE {[tree |-> FindMarkdownFilesQuick(fs, m.includeIgnored), depth |-> 0],
        [tree |-> FindMarkdownFilesWithDepth(fs, m.includeIgnored,
                                             m.currentDepth),
         depth |-> m.currentDepth]}

\* the directories of the root that cannot be listed
Unlistable(fsys) ==
  {fsys.entries[k].name : k \in {j \in 1..Len(fsys.entries) :
                                   /\ fsys.entries[j].isDir
                                   /\ ~fsys.entries[j].readable}}

\* a directory that cannot be listed is kept without children and every
\* document the walk can reach is found, those after the directory too
WalkContinues(fsys, includeIgnored, scan) ==
  /\ \A rel \in FsDocuments(fsys.entries, << >>, 0, scan.depth) :
       includeIgnored \/ ~Matched(fsys, rel) => rel \in DocsOf(scan.tree)
  /\ \A name \in Unlistable(fsys) :
       ~HasPrefix(name, << "." >>)
       /\ (includeIgnored \/ ~Matched(fsys, name)) =>
         \E i \in 1..Len(scan.tree.Children) :
           /\ scan.tree.Children[i].Name = name
           /\ scan.tree.Children[i].IsDir
           /\ scan.tree.Children[i].Children = << >>

\* C27: a scan whose root cannot be read or does not exist returns a root
\* node with IsDir = true and no children together with a nil error, in the
\* quick scan and in the depth-bounded scan alike; an error on an individual
\* entry is swallowed and the walk continues with the remaining entries.
C27_ScanErrorsAbsorbed ==
  /\ \A x \in Pending("loadCompleteMsg") : ~x.err
  /\ \A scan \in OwnScans :
       IF ~fs.rootReadable THEN scan.tree = BareRoot
       ELSE WalkContinues(fs, m.includeIgnored, scan)

\* the working directory cannot be listed: the quick scan and a deepening
\* scan have returned, and the model holds the root without children
C27_Witness ==
  /\ ~fs.rootReadable
  /\ m.currentDepth >= 1
  /\ ~m.isExpanding
  /\ m.fileTree = BareRoot
  /\ m.fileTree.IsDir
  /\ m.treeLines = << >>
  /\ m.allFiles = << >>

\* the trees quick scans have returned: the one reported and on its way,
\* the one the program's quick scan gives, and the one the model holds
\* before the first deepening step
QuickTrees ==
  {x.tree : x \in Pending("loadCompleteMsg")}
  \cup (IF m.currentDepth >= 0
        THEN {FindMarkdownFilesQuick(fs, m.includeIgnored)} ELSE {})
  \cup (IF m.currentDepth = 0 THEN {m.fileTree} ELSE {})

\* the tree holds the children of the root and nothing below them
RootLevelOnly(tree) ==
  /\ \A i \in 1..Len(tree.Children) : tree.Children[i].Children = << >>
  /\ \A i \in 1..Len(CollectFiles(tree)) :
       CollectFiles(tree)[i]
         = PathJoin(RootPath, PathBase(CollectFiles(tree)[i]))

\* C28: the depth-0 quick scan returns only the root's immediate children:
\* every directory node in its tree has no children and every document in
\* its file index lies directly in the root, whatever the subdirectories
\* contain.
C28_QuickScanRootOnly == \A tree \in QuickTrees : RootLevelOnly(tree)

\* the model holds the tree of the quick scan: documents of the root and
\* the directory d without children, while d holds a document on disk
C28_Witness ==
  /\ m.currentDepth = 0
  /\ ~m.isExpanding
  /\ m.fileTree = FindMarkdownFilesQuick(fs, m.includeIgnored)
  /\ Len(m.allFiles) >= 2
  /\ \E i \in 1..Len(m.fileTree.Children) :
       /\ m.fileTree.Children[i].Name = Name_d
       /\ m.fileTree.Children[i].IsDir
       /\ m.fileTree.Children[i].Children = << >>
  /\ PathJoin(Name_d, Name_ba) \in FsDocuments(fs.entries, << >>, 0, 1)

\* ------------------------------------------------------------------------
\* Properties of the layout
\* ------------------------------------------------------------------------

\* the float64 values of Doubles in hundredths, rounded to the nearest
HundredthsOfDoubles ==
  << 15, 15, 20, 20, 25, 25, 30, 30, 35, 35, 40, 40, 45, 45, 50, 50, 55, 55 >>

Hundredths(x) == HundredthsOfDoubles[FloatRank(x)]

\* 0.2 <= x <= 0.5 as float64 values
RatioInRange(x) ==
  /\ x \in Ratios
  /\ FloatRank("0.2") <= FloatRank(x)
  /\ FloatRank(x) <= FloatRank("0.5")

\* C29: the split ratio stays within [0.2, 0.5] in every reachable state:
\* starting from 0.3, each narrow command lowers it by 0.05 and each widen
\* command raises it by 0.05 (to the rounding of float64 arithmetic), and it
\* saturates at the bound instead of crossing it; nothing else changes it.
C29_SplitRatioInRange ==
  [][/\ RatioInRange(m.splitRatio)
     /\ RatioInRange(m'.splitRatio)
     /\ handled.type = "none" => m.splitRatio = "0.3"
     /\ IF handled'.type = "KeyMsg" /\ handled'.key = "<"
        THEN /\ Hundredths(m'.splitRatio)
                  = Max(20, Hundredths(m.splitRatio) - 5)
             /\ Hundredths(m.splitRatio) = 20 => m'.splitRatio = "0.2"
        ELSE IF handled'.type = "KeyMsg" /\ handled'.key = ">"
        THEN /\ Hundredths(m'.splitRatio)
                  = Min(50, Hundredths(m.splitRatio) + 5)
             /\ Hundredths(m.splitRatio) = 50 => m'.splitRatio = "0.5"
        ELSE m'.splitRatio = m.splitRatio]_vars

\* a narrow command has just been handled with the ratio at the lower
\* bound, in a terminal of 80 columns with the engine of the matching width
C29_Witness ==
  /\ handled = Handled("KeyMsg", "<")
  /\ m.splitRatio = "0.2"
  /\ m.width = 80
  /\ m.renderer = WrapWidth(m.width, m.splitRatio)
  /\ Len(m.allFiles) > 0

\* the fields of the model a resize may change
ResizedFields == {"width", "height", "renderer", "renderedLines"}

\* a resize message has just been handled
ResizeStep == handled'.type = "WindowSizeMsg"

\* C30: a resize message changes only width, height, the chosen rendering
\* engine and the rendered lines: it leaves currentDepth, isExpanding,
\* fileTree, allFiles, treeLines, selectedIndex, treeSelectedIdx, focus and
\* the raw flag unchanged, as every other field, and schedules no scan.
C30_ResizeFrame ==
  [][ResizeStep =>
       /\ \A f \in DOMAIN m \ ResizedFields : m'[f] = m[f]
       /\ \E size \in SizesResize :
            m'.width = size.Width /\ m'.height = size.Height - 2
       /\ cmd' = CmdNil
       /\ msgs' = msgs
       /\ ~quit']_vars

\* a resize to 100 columns has been handled while a deepening step was
\* scheduled, the second document was selected, the content pane had the
\* focus and raw was on: the engine is the one of the new wrap width
C30_Witness ==
  /\ handled = Handled("WindowSizeMsg", "")
  /\ m.width = 100
  /\ m.height = 5
  /\ m.renderer = WrapWidth(m.width, m.splitRatio)
  /\ m.selectedIndex = 1
  /\ m.focusedPane = 1
  /\ m.raw
  /\ PendingExpansions > 0

\* the wheel events
Wheels == {msg \in Mice : msg.Type \in {"MouseWheelUp", "MouseWheelDown"}}

\* the wheel event msg has just been handled
WheelStep(msg) == handled' = Handled("MouseMsg", MouseString(msg))

\* the viewport field of the pane under column x
PaneUnder(x) ==
  IF x < TreeWidth(m.width, m.splitRatio) THEN "treeViewport"
  ELSE "contentViewport"

\* the number of lines of the pane a viewport field scrolls
LinesOf(s, field) ==
  IF field = "treeViewport" THEN Len(s.treeLines) ELSE Len(s.renderedLines)

\* the wheel step changes only the viewport of the pane under the pointer
WheelRouted(msg) ==
  /\ \A f \in DOMAIN m \ {PaneUnder(msg.X)} : m'[f] = m[f]
  /\ cmd' = CmdNil
  /\ msgs' = msgs
  /\ dualRendererCache' = dualRendererCache

\* the wheel step moves the viewport by at most one line
WheelOneLine(msg) ==
  LET f == PaneUnder(msg.X)
  IN m'[f] - m[f] \in {-1, 0, 1}

\* the wheel step leaves the viewport in [0, max(0, lines - (height - 2))]
WheelInRange(msg) ==
  LET f == PaneUnder(msg.X)
  IN InRange(m'[f], LinesOf(m', f), m'.height - 2)

\* C31: a pointer-wheel event is routed by the horizontal split boundary:
\* with x < int(width*splitRatio) it changes only treeViewport, otherwise
\* only contentViewport, in both cases by at most one line and never outside
\* [0, max(0, lineCount - (height-2))]; it never changes the selection, the
\* focus or the scan state.
C31_WheelRouted ==
  [][\A msg \in Wheels :
       WheelStep(msg) =>
         WheelRouted(msg) /\ WheelOneLine(msg) /\ WheelInRange(msg)]_vars

\* ------------------------------------------------------------------------
\* Properties of the single-file view
\* ------------------------------------------------------------------------

\* the fileLoadedMsg on its way to Update (Init's command sends one)
LoadedMsg == CHOOSE x \in PendingSingle("fileLoadedMsg") : TRUE

\* a fileLoadedMsg has just been handled
FileLoadedStep ==
  handled' = Handled("fileLoadedMsg", "") /\ PendingSingle("fileLoadedMsg") # {}

\* the model as NewSingleFileModel leaves it: nothing read
Unloaded(s) ==
  /\ s.lines = << Str_LoadingFile >>
  /\ s.content = << >>
  /\ s.viewport = 0
  /\ ~s.raw
  /\ ~s.contentLoaded
  /\ s.renderer = NilRenderer

\* nothing was started by the step: no message sent, no command running
NothingStarted ==
  /\ cmd' = CmdNil
  /\ sfMsgs' = sfMsgs (-) SetToBag({LoadedMsg})
  /\ creating' = creating

DocumentLoaded == m.currentContent # << >>

\* C33: the content pane always shows the selected document: in every
\* reachable state where allFiles is non-empty and a document has been
\* loaded, currentContent is the content (or the read-error text) of
\* allFiles[selectedIndex], also right after a deepening step has replaced
\* the tree and the file index while keeping the numeric selectedIndex.
C33_ContentOfSelected ==
  /\ Len(m.allFiles) > 0
  /\ DocumentLoaded
  /\ m.selectedIndex >= 0
  /\ m.selectedIndex < Len(m.allFiles)
  => m.currentContent = LoadedContent(m.allFiles[m.selectedIndex + 1])

\* C34: View never indexes outside its line sequences: in every reachable
\* state with height != 0, DualPaneModel.View reads renderedLines and
\* treeLines, and SingleFileModel.View reads lines, only at indices in
\* [0, length), for any order of key, mouse and resize messages, scroll keys
\* handled before the first resize message included.
C34_ViewInBounds ==
  IF SingleMode THEN ~SingleViewPanics(sf) ELSE ~DualViewPanics(m)

\* C35: at any time at most one deepening step is scheduled and not yet
\* handled (a pending expandTreeMsg or performExpansionMsg), however the
\* manual deepen requests interleave with the automatic cadence.
C35_OneDeepeningPending == PendingExpansions <= 1

\* ------------------------------------------------------------------------
\* Properties of the single-file view when its commands finish in any order
\* ------------------------------------------------------------------------

\* two terminal widths at one height
SizesOrder == {[Width |-> 80, Height |-> 3], [Width |-> 100, Height |-> 3]}

\* a resize to one of the given sizes, taken while the number of commands
\* and messages in flight is within the bound
HandleSingleWindowSizeIn(sizes) ==
  /\ Running
  /\ InFlight < MaxInFlight
  /\ \E s \in {sf} : \E size \in sizes : \E io \in IoOk :
       \E r \in {SingleWindowSize(s, size)} :
         CommitSingle(r, EmptyBag, Handled("WindowSizeMsg", ""), io)

\* the single-file program under resizes between two widths and the raw
\* toggle, every engine call succeeding: tea.Tick commands run on their own
\* goroutines, so their messages reach Update in any order
NextOrder ==
  \/ HandleFileLoaded(IoOk)
  \/ HandleRendererCreated(IoOk)
  \/ HandleContentRendered
  \/ HandleSingleWindowSizeIn(SizesOrder)
  \/ HandleSingleKey("r", IoOk)
  \/ CreateRendererCheck
  \/ CreateRendererBuild(IoOk)

SpecOrder == InitSingle /\ [][NextOrder]_vars

\* every background command has delivered its message and every message
\* has been handled
Quiescent == SingleMode /\ InFlight = 0

\* C36: in single-file mode, once every background command has delivered
\* its message, the engine of the model is the one built for the most
\* recently received window width (raw false, content non-empty, an engine
\* present), whatever the order in which the rendererCreatedMsg results
\* arrive.
C36_EngineOfLastWidth ==
  /\ Quiescent
  /\ ~sf.raw
  /\ sf.content # << >>
  /\ sf.width > 0
  /\ sf.renderer # NilRenderer
  => sf.renderer.width = sf.width

\* what the view shows for the raw flag, the content and the engine
LinesFor(s) ==
  IF s.raw THEN Split(s.content, "\n")
  ELSE Split(GlamourRender(s.content, s.renderer.width), "\n")

\* C37: in single-file mode, once every background command has delivered
\* its message, the displayed lines agree with the raw flag: the verbatim
\* split of content when raw is true, the rendered output when raw is false
\* and an engine is available, whatever the order in which the
\* contentRenderedMsg results arrive.
C37_LinesAgreeWithRaw ==
  /\ Quiescent
  /\ sf.contentLoaded
  /\ sf.content # << >>
  /\ sf.raw \/ sf.renderer # NilRenderer
  => sf.lines = LinesFor(sf)

\* ------------------------------------------------------------------------
\* Properties of the scans by depth and of the nodes they keep
\* ------------------------------------------------------------------------

\* the number of segments of the node's path relative to the root
Segments(node) == Len(Split(PathRel(RootPath, node.Path), "/"))

\* every node of the tree lies at most d directory levels below the root
DepthBounded(tree, d) ==
  \A i \in 1..Len(NodesBelow(tree)) : Segments(NodesBelow(tree)[i]) <= d + 1

\* the documents on disk that a scan with the given -i setting may keep,
\* none when the working directory cannot be listed
Reachable(fsys, includeIgnored, maxDepth) ==
  IF ~fsys.rootReadable THEN {}
  ELSE {rel \in FsDocuments(fsys.entries, << >>, 0, maxDepth) :
          includeIgnored \/ ~Matched(fsys, rel)}

\* the scan to depth d against the scan one level deeper and the scan
\* without bound
DepthsNest(fsys, includeIgnored, d) ==
  LET at == FindMarkdownFilesWithDepth(fsys, includeIgnored, d)
      next == FindMarkdownFilesWithDepth(fsys, includeIgnored, d + 1)
      all == FindMarkdownFilesWithDepth(fsys, includeIgnored, -1)
  IN /\ DepthBounded(at, d)
     /\ Reachable(fsys, includeIgnored, d) \subseteq DocsOf(at)
     /\ Reachable(fsys, includeIgnored, -1) \subseteq DocsOf(all)
     /\ DocsOf(at) \subseteq DocsOf(next)
     /\ DocsOf(next) \subseteq DocsOf(all)
     /\ Len(CollectFiles(next)) > Len(CollectFiles(at))
          <=> DocsOf(next) # DocsOf(at)

\* C38: a scan with maxDepth = d >= 0 keeps a node only if it lies at most
\* d directory levels below the root (a relative path of at most d+1
\* segments), maxDepth = -1 keeps every level, and on an unchanged
\* filesystem the documents found at depth d are among those found at depth
\* d+1, so that comparing the document counts detects every newly reachable
\* document: after a deepening step the model holds the documents of the
\* scan to the depth reached.
C38_DepthBound ==
  m.currentDepth >= 0 =>
    /\ DepthsNest(fs, m.includeIgnored, m.currentDepth)
    /\ m.currentDepth >= 1 /\ ~m.isExpanding =>
         DocsOf(m.fileTree)
           = DocsOf(FindMarkdownFilesWithDepth(fs, m.includeIgnored,
                                               m.currentDepth))

\* the program has scanned one level deep: it holds d/ba.md and the
\* directory d/e without children, while d/e/b.md is on disk two levels
\* down and the scan one level deeper finds it
C38_Witness ==
  /\ m.currentDepth = 1
  /\ ~m.isExpanding
  /\ m.fileTree = FindMarkdownFilesWithDepth(fs, m.includeIgnored, 1)
  /\ PathJoin(Name_d, Name_ba) \in DocsOf(m.fileTree)
  /\ LET deep == PathJoin(PathJoin(Name_d, Name_e), Name_b)
     IN /\ deep \in Reachable(fs, m.includeIgnored, 2)
        /\ deep \notin DocsOf(m.fileTree)
        /\ deep \in DocsOf(FindMarkdownFilesWithDepth(fs, m.includeIgnored,
                                                     2))
  /\ \E i \in 1..Len(NodesBelow(m.fileTree)) :
       /\ NodesBelow(m.fileTree)[i].Path
            = PathJoin(RootPath, PathJoin(Name_d, Name_e))
       /\ NodesBelow(m.fileTree)[i].Children = << >>

\* the relative paths handed to addToTree: a document of the root, a
\* directory, documents one and two levels down and the directory between
AddPaths ==
  {Name_a, Name_d, PathJoin(Name_d, Name_b), PathJoin(Name_d, Name_e),
   PathJoin(PathJoin(Name_d, Name_e), Name_b)}

\* the root node of FindMarkdownFilesWithDepth before the walk
InitAdd ==
  /\ fs = FsView
  /\ m = [NewDualPaneModel(FALSE) EXCEPT !.fileTree = BareRoot]
  /\ NoSingleFile
  /\ dualRendererCache = {}
  /\ msgs = EmptyBag
  /\ handled = Handled("none", << >>)
  /\ cmd = "Init"
  /\ quit = FALSE

\* one call of addToTree on the tree built so far, for a path below the root
\* given as a file or as a directory
AddToTreeCall ==
  \E rel \in AddPaths : \E isDir \in BOOLEAN :
    /\ m' = [m EXCEPT !.fileTree =
                addToTree(@, RootPath, PathJoin(RootPath, rel), isDir)]
    /\ handled' = Handled("addToTree", rel)
    /\ UNCHANGED << dualRendererCache, fs, msgs, cmd, quit, sf,
                    rendererCache, sfMsgs, creating, built >>

NextAdd == AddToTreeCall

\* addToTree alone, called in any order on any of the paths
SpecAdd == InitAdd /\ [][NextAdd]_vars

\* the nodes of the tree, the root included
AllNodes(tree) ==
  {tree} \cup {NodesBelow(tree)[i] : i \in 1..Len(NodesBelow(tree))}

\* no two children of a node of the tree share a name
NoTwins(tree) ==
  \A node \in AllNodes(tree) :
    \A i, j \in 1..Len(node.Children) :
      node.Children[i].Name = node.Children[j].Name => i = j

RECURSIVE NodesAt(_, _, _)
\* the nodes reached from node by the names parts[i..]
NodesAt(node, parts, i) ==
  IF i > Len(parts) THEN {node}
  ELSE UNION {NodesAt(node.Children[k], parts, i + 1) :
                k \in {j \in 1..Len(node.Children) :
                         node.Children[j].Name = parts[i]}}

\* the leading parts of a relative path, the path itself included
Prefixes(rel) ==
  LET parts == Split(rel, "/")
  IN {SubSeq(parts, 1, k) : k \in 1..Len(parts)}

\* what a call of addToTree for rel does to tree: every leading part of rel
\* is a node afterwards, a node made by the call is a directory unless it is
\* the last part of a file path and carries its own path, nothing else is
\* added, and a path that was present leaves the tree as it was
AddsOnDemand(tree, rel, isDir) ==
  LET after == addToTree(tree, RootPath, PathJoin(RootPath, rel), isDir)
      parts == Split(rel, "/")
      made == {q \in Prefixes(rel) : NodesAt(tree, q, 1) = {}}
  IN /\ \A q \in Prefixes(rel) : Cardinality(NodesAt(after, q, 1)) = 1
     /\ \A q \in made :
          \A node \in NodesAt(after, q, 1) :
            /\ node.IsDir = (isDir \/ Len(q) < Len(parts))
            /\ node.Path = PathJoin(RootPath, JoinWith(q, "/"))
     /\ NodeCount(after) = NodeCount(tree) + Cardinality(made)
     /\ made = {} => after = tree
     /\ NoTwins(after)

\* C39: addToTree creates the intermediate directory nodes of a relative
\* path on demand and merges with an existing sibling of the same name:
\* after any sequence of addToTree calls no two siblings share a name, and
\* adding a path that is already present leaves the tree unchanged.
C39_AddToTreeMerges ==
  /\ NoTwins(m.fileTree)
  /\ \A rel \in AddPaths : \A isDir \in BOOLEAN :
       AddsOnDemand(m.fileTree, rel, isDir)

\* d/e/b.md was added to the bare root, which made the directories d and
\* d/e on demand, and d was then added again: the tree still has the three
\* nodes of the first call
C39_Witness ==
  /\ handled = Handled("addToTree", Name_d)
  /\ NodeCount(m.fileTree) = 4
  /\ \E node \in NodesAt(m.fileTree, << Name_d, Name_e, Name_b >>, 1) :
       ~node.IsDir
  /\ \A node \in NodesAt(m.fileTree, << Name_d, Name_e >>, 1) : node.IsDir
  /\ \A node \in NodesAt(m.fileTree, << Name_d >>, 1) :
       node.IsDir /\ Len(node.Children) = 1

Name_amd == << "a", "m", "d" >>

\* the entries of a working directory by kind, in ReadDir (byte) order: a
\* document, a file whose name ends in "md" without the dot, a document with
\* an upper-case suffix, a directory with such a document and a text file, a
\* text file
KindEntries ==
  << FsFile(Name_a, Text_a, TRUE),
     FsFile(Name_amd, Text_b, TRUE),
     FsFile(Name_c, Text_c, TRUE),
     FsDir(Name_d, << FsFile(Name_c, Text_c, TRUE),
                      FsFile(Name_txt, Text_b, TRUE) >>, TRUE),
     FsFile(Name_txt, Text_b, TRUE) >>

\* the working directory that holds the entries chosen by S
FsKinds(S) ==
  [entries |-> SelectSeq(KindEntries,
                         LAMBDA e : \E k \in S : KindEntries[k] = e),
   rootReadable |-> TRUE, ignoreFile |-> "none", ignored |-> {}]

StartsKinds ==
  {[fs |-> FsKinds(S), includeIgnored |-> i] :
     S \in SUBSET (1..Len(KindEntries)), i \in BOOLEAN}

InitKinds == StartDualPane(StartsKinds)

\* the scans alone, in every working directory made of entries of each kind
SpecKinds == InitKinds /\ [][NextTree]_vars

\* the name ends in ".md", in either case of either letter
EndsInMd(name) ==
  /\ Len(name) >= 3
  /\ SubSeq(name, Len(name) - 2, Len(name))
       \in {<< ".", x, y >> : x \in {"m", "M"}, y \in {"d", "D"}}

\* every node below the root is a directory or a document, is the entry of
\* that kind on disk, and has no children unless it is a directory
NodeKinds(fsys, tree) ==
  \A i \in 1..Len(NodesBelow(tree)) :
    LET node == NodesBelow(tree)[i]
        on == FsLookup(fsys.entries,
                       Split(PathRel(RootPath, node.Path), "/"), 1)
    IN /\ node.IsDir \/ EndsInMd(node.Name)
       /\ ~node.IsDir => node.Children = << >>
       /\ on.found
       /\ on.entry.isDir = node.IsDir

\* the directories of the root and its files named *.md are nodes of the
\* tree, its other files are not
RootKept(fsys, tree) ==
  \A k \in 1..Len(fsys.entries) :
    LET e == fsys.entries[k]
    IN (e.isDir \/ EndsInMd(e.name))
         <=> \E i \in 1..Len(tree.Children) :
               /\ tree.Children[i].Name = e.name
               /\ tree.Children[i].IsDir = e.isDir

\* C40: every node of a scanned tree is either a directory or a document
\* whose name ends in ".md" compared case-insensitively; every other
\* filesystem entry is skipped, and a non-directory node never has
\* children.
C40_NodeKinds ==
  /\ \A tree \in ScansDone : NodeKinds(fs, tree)
  /\ m.currentDepth >= 0 =>
       \A tree \in ScansAt(fs, m.includeIgnored, m.currentDepth) :
         RootKept(fs, tree)
  /\ m.currentDepth >= 0 /\ ~m.isExpanding => RootKept(fs, m.fileTree)

\* the program has scanned a level deep in the directory that holds every
\* kind of entry: c.MD is a node of the root and of d, the files amd and
\* n.txt are nowhere in the tree
C40_Witness ==
  /\ fs.entries = KindEntries
  /\ m.currentDepth >= 1
  /\ ~m.isExpanding
  /\ m.fileTree = FindMarkdownFilesWithDepth(fs, m.includeIgnored,
                                             m.currentDepth)
  /\ {Name_c, Name_a, PathJoin(Name_d, Name_c)} = DocsOf(m.fileTree)
  /\ NodeCount(m.fileTree) = 5
  /\ \A i \in 1..Len(NodesBelow(m.fileTree)) :
       NodesBelow(m.fileTree)[i].Name \notin {Name_amd, Name_txt}

====
